---- MODULE Spec2Model ----
(***************************************************************************)
(* CloudFlow: order saga, idempotency registry, DynamoDB-backed circuit    *)
(* breaker and the inventory / payment step handlers.                      *)
(*                                                                         *)
(* Every DynamoDB table is a function whose DOMAIN is the set of keys that *)
(* hold an item; an item is a record that carries only the attributes that *)
(* were written (update_item is an upsert that sets the named attributes). *)
(* Every store operation of a handler is one step of the worker running    *)
(* it, so concurrent invocations interleave between any two store calls.   *)
(***************************************************************************)
EXTENDS Integers, Sequences, FiniteSets, TLC

VARIABLES
    idem,          \* idempotency table: idempotency_key -> item
    inventory,     \* inventory table: product_id -> quantity
    reservations,  \* reservations table: reservation_id -> item
    wk,            \* one record per concurrent invocation slot (Lambda instance)
    ncalls,        \* invocations started so far (source of uuid4 values)
    outs,          \* invocation id -> what the invocation returned or raised
    fcount,        \* call_count of the wrapped test function
    fdone,         \* key -> number of successful completions of the wrapped function
    orderItems,    \* order_id -> the items of the order (the step's input)
    initStock,     \* product_id -> the quantity the product was seeded with
    now,           \* time.time(), in ticks of 1/TicksPerSecond seconds
    cb,            \* circuit breaker table: name -> item
    ninvoked,      \* how many times the protected callable has been invoked
    ledger,        \* the payment provider's side: order_id -> charges it has accepted
    consecFail,    \* calls in a row that failed (the callable or the call itself raised)
    lastFail,      \* time.time() of the last failed call
    orders,        \* orders table: order_id -> the META item of the order
    payments,      \* payments table: payment_id -> item
    saga,          \* order_id -> the Step Functions execution order-saga-<order_id>
    queue,         \* messages sent to the notification queue
    events,        \* event items of the orders table: <<order_id, sk>> -> item
    bus            \* domain events put on the EventBridge bus

vars == <<idem, inventory, reservations, wk, ncalls, outs, fcount, fdone,
          orderItems, initStock, now, cb, ninvoked, ledger, consecFail, lastFail,
          orders, payments, saga, queue, events, bus>>

\* what only the order service, the payment handler and the orchestrator write
sagaVars == <<orders, payments, saga, queue, events, bus>>

\* the breaker record and what is observed of the protected callable
cbVars == <<cb, ninvoked, ledger, consecFail, lastFail>>

\* what neither the idempotency wrapper nor the inventory handler writes
inputVars == <<orderItems, initStock, now, cbVars, sagaVars>>

\* what the circuit breaker does not write
nonCbVars == <<idem, inventory, reservations, ncalls, fcount, fdone, orderItems, initStock,
               sagaVars>>

----------------------------------------------------------------------------
(* Bounds of the model *)

MaxCalls == 4

Workers == {"w1", "w2", "w3"}

IdemKeys == {"k1"}

\* resolution of the clock: time.time() is a float, resets_at is stored as int(...)
TicksPerSecond == 2

MaxTime == 4

\* the clock advances
Tick ==
    /\ now < MaxTime
    /\ now' = now + 1
    /\ UNCHANGED <<nonCbVars, wk, outs, cbVars>>

----------------------------------------------------------------------------
(* Keyed store: put / delete / get / update on a table *)

Put(t, k, item) == [x \in (DOMAIN t) \cup {k} |-> IF x = k THEN item ELSE t[x]]

Delete(t, k) == [x \in (DOMAIN t) \ {k} |-> t[x]]

\* get_item(...).get("Item", {}): the stored item, or the empty item
GetItem(t, k) == IF k \in DOMAIN t THEN t[k] ELSE <<>>

\* update_item with a SET expression: upsert, the named attributes overwritten
Merge(item, upd) ==
    [a \in (DOMAIN item) \cup (DOMAIN upd) |-> IF a \in DOMAIN upd THEN upd[a] ELSE item[a]]

UpdateItem(t, k, upd) == Put(t, k, Merge(GetItem(t, k), upd))

\* dict.get(attr) with a default
Attr(item, a, default) == IF a \in DOMAIN item THEN item[a] ELSE default

----------------------------------------------------------------------------
(* json.dumps / json.loads of a handler result.  The encoded text is a      *)
(* sequence of <<name, token>> members in the order of the dict; a token is *)
(* a JSON literal, a quoted string or a number.                             *)

JsonFields == <<"success", "reservation_id", "payment_id", "error", "message",
                "retry_after_seconds", "result", "count", "order_id", "status">>

JsonToken(name, v) ==
    CASE name = "success" -> <<"lit", IF v THEN "true" ELSE "false">>
      [] name \in {"retry_after_seconds", "count"} -> <<"num", v>>
      [] OTHER -> <<"str", v>>

JsonValue(name, tok) ==
    CASE tok[1] = "lit" -> (tok[2] = "true")
      [] OTHER -> tok[2]

RECURSIVE JsonDumpsFrom(_, _)
JsonDumpsFrom(r, i) ==
    IF i > Len(JsonFields) THEN <<>>
    ELSE IF JsonFields[i] \in DOMAIN r
         THEN <<  <<JsonFields[i], JsonToken(JsonFields[i], r[JsonFields[i]])>>  >>
              \o JsonDumpsFrom(r, i + 1)
         ELSE JsonDumpsFrom(r, i + 1)

JsonDumps(r) == JsonDumpsFrom(r, 1)

JsonLoads(s) ==
    [name \in {s[i][1] : i \in 1..Len(s)} |->
        JsonValue(name, s[CHOOSE i \in 1..Len(s) : s[i][1] = name][2])]

----------------------------------------------------------------------------
(* Invocation slots.  A worker runs one handler invocation at a time:       *)
(*   op    the wrapped function ("f": the unit tests' function)             *)
(*   key   key_fn(...)                                                      *)
(*   cid   the invocation's fresh identifier                                *)
(*   res   the value the wrapped function returned                          *)
(*   exc   the exception the wrapped function raised                        *)

(*   order the order_id of the event                                        *)
(*   rid   the reservation_id (reserve: the fresh uuid4; release: the event)*)
(*   items the items the body iterates over, i the index of the next one    *)

(*   st    the breaker state the call read last (prev_state), fnres what  *)
(*         the protected callable returned, excarg the exception's argument,*)
(*         at the time at which the callable was invoked, pid the           *)
(*         payment_id drawn for a charge, seen the reservation_id that a    *)
(*         Reserve of the same order had already returned when the          *)
(*         invocation started ("-" when none had)                           *)

IdleWorker ==
    [pc |-> "idle", op |-> "-", key |-> "-", cid |-> "-", res |-> <<>>, exc |-> "-",
     order |-> "-", rid |-> "-", items |-> <<>>, i |-> 0,
     st |-> <<>>, fnres |-> <<>>, excarg |-> 0, at |-> 0, pid |-> "-", seen |-> "-",
     snap |-> <<>>, status |-> "-"]

NewId == ToString(ncalls + 1)

\* the invocation ends: its outcome is what the caller observes
\* order_service/handler.py: _response(status_code, body)
Response(status_code, body) == [statusCode |-> status_code, body |-> body]

\* what handler() returns when the wrapped function's result is val: the step handlers
\* return it as it is, _create_order returns _response(202, result)
HandlerReturn(w, val) ==
    IF wk[w].op = "create" THEN Response(202, JsonDumps(val)) ELSE val

Returned(w, val) ==
    /\ wk' = [wk EXCEPT ![w] = IdleWorker]
    /\ outs' = Put(outs, wk[w].cid,
                   [key |-> wk[w].key, kind |-> "ret", val |-> HandlerReturn(w, val),
                    after |-> wk[w].seen, before |-> wk[w].snap])

\* inventory_service/handler.py handler(): except InsufficientStockError -> structured
\* failure; any other exception is re-raised to the caller
\* payment_service/handler.py handler(): except CircuitBreakerOpenError / except
\* PaymentDeclinedError -> structured failure; int() truncates towards zero
\* order_service/handler.py handler(): pydantic ValidationError -> 400,
\* IdempotencyAlreadyInProgressError -> 409, any other exception -> 500
HandlerExcept_Propagates(w, e, arg) ==
    [key |-> wk[w].key, kind |-> "exc", val |-> e, arg |-> arg]

HandlerExcept(w, e, arg) ==
    CASE wk[w].op \in {"reserve", "release"} /\ e = "InsufficientStockError" ->
            [key |-> wk[w].key, kind |-> "ret",
             val |-> [success |-> FALSE, error |-> "INSUFFICIENT_STOCK"]]
      [] wk[w].op \in {"charge", "refund"} /\ e = "CircuitBreakerOpenError" ->
            [key |-> wk[w].key, kind |-> "ret",
             val |-> [success |-> FALSE, error |-> "PAYMENT_PROVIDER_UNAVAILABLE",
                      retry_after_seconds |->
                          IF arg >= now THEN (arg - now) \div TicksPerSecond
                          ELSE 0 - ((now - arg) \div TicksPerSecond)]]
      [] wk[w].op \in {"charge", "refund"} /\ e = "PaymentDeclinedError" ->
            [key |-> wk[w].key, kind |-> "ret",
             val |-> [success |-> FALSE, error |-> "PAYMENT_DECLINED"]]
      [] wk[w].op = "create" ->
            [key |-> wk[w].key, kind |-> "ret",
             val |-> CASE e = "ValidationError" ->
                               Response(400, JsonDumps([error |-> "Validation failed"]))
                       [] e = "IdempotencyAlreadyInProgressError" ->
                               Response(409, JsonDumps([error |-> e]))
                       [] OTHER ->
                               Response(500, JsonDumps([error |-> "Internal server error"]))]
      [] OTHER -> [key |-> wk[w].key, kind |-> "exc", val |-> e, arg |-> arg]

\* the exception e(arg) leaves the invocation
RaisedWith(w, e, arg) ==
    /\ wk' = [wk EXCEPT ![w] = IdleWorker]
    /\ outs' = Put(outs, wk[w].cid, Merge(HandlerExcept(w, e, arg),
                                          [after |-> wk[w].seen, before |-> wk[w].snap]))

Raised(w, e) == RaisedWith(w, e, wk[w].excarg)

----------------------------------------------------------------------------
(* shared/idempotency.py: idempotent(key_fn)(fn) -> wrapper *)

\* first pc of the wrapped function's body
BodyStart(op) ==
    CASE op = "f" -> "run"
      [] op = "reserve" -> "res_dec"
      [] op = "release" -> "rel_get"
      [] op = "charge" -> "cb_start"
      [] op = "refund" -> "rf_get"
      [] op = "create" -> "crt_put"

\* the claim that takes over a record left by a completed call
ClaimSucceeds_Stale(key) ==
    \/ key \notin DOMAIN idem
    \/ idem[key].status = "COMPLETE"

\* the claim written without its ConditionExpression
ClaimSucceeds_Always(key) == TRUE

\* put_item(..., ConditionExpression="attribute_not_exists(idempotency_key)")
ClaimSucceeds(key) == key \notin DOMAIN idem

\* IDEMPOTENCY_TTL_SECONDS, read from the environment (24 hours by default)
IdempotencyTtlSeconds == 1

\* int(time.time())
NowSeconds == now \div TicksPerSecond

\* the Item of the claiming put: ttl = int(time.time()) + IDEMPOTENCY_TTL_SECONDS
ClaimItem == [status |-> "IN_FLIGHT", ttl |-> NowSeconds + IdempotencyTtlSeconds]

\* the record of key is in the table with its ttl in the past
Expired(key) ==
    /\ key \in DOMAIN idem
    /\ "ttl" \in DOMAIN idem[key]
    /\ idem[key].ttl < NowSeconds

IdemClaim(w) ==
    /\ wk[w].pc = "claim"
    /\ IF ClaimSucceeds(wk[w].key)
       THEN /\ idem' = Put(idem, wk[w].key, ClaimItem)
            /\ wk' = [wk EXCEPT ![w].pc = BodyStart(wk[w].op)]
       ELSE /\ wk' = [wk EXCEPT ![w].pc = "get"]
            /\ UNCHANGED idem
    /\ UNCHANGED <<inventory, reservations, ncalls, outs, fcount, fdone, inputVars>>

\* the read that lets the caller take over a record found IN_FLIGHT
IdemGet_TakesOver(w) ==
    /\ wk[w].pc = "get"
    /\ LET existing == GetItem(idem, wk[w].key)
           status == Attr(existing, "status", "None")
       IN CASE status = "COMPLETE" -> Returned(w, JsonLoads(existing.result))
            [] status = "IN_FLIGHT" ->
                   wk' = [wk EXCEPT ![w].pc = BodyStart(wk[w].op)] /\ UNCHANGED outs
            [] OTHER -> wk' = [wk EXCEPT ![w].pc = "del_unknown"] /\ UNCHANGED outs
    /\ UNCHANGED <<idem, inventory, reservations, ncalls, fcount, fdone, inputVars>>

\* existing = table.get_item(...).get("Item", {}); status = existing.get("status")
IdemGet(w) ==
    /\ wk[w].pc = "get"
    /\ LET existing == GetItem(idem, wk[w].key)
           status == Attr(existing, "status", "None")
       IN CASE status = "COMPLETE" -> Returned(w, JsonLoads(existing.result))
            [] status = "IN_FLIGHT" -> Raised(w, "IdempotencyAlreadyInProgressError")
            [] OTHER -> wk' = [wk EXCEPT ![w].pc = "del_unknown"] /\ UNCHANGED outs
    /\ UNCHANGED <<idem, inventory, reservations, ncalls, fcount, fdone, inputVars>>

\* unknown status: table.delete_item(...); raise IdempotencyError
IdemDeleteUnknown(w) ==
    /\ wk[w].pc = "del_unknown"
    /\ idem' = Delete(idem, wk[w].key)
    /\ Raised(w, "IdempotencyError")
    /\ UNCHANGED <<inventory, reservations, ncalls, fcount, fdone, inputVars>>

\* the exception handler that re-raises and leaves the record in place
IdemCleanup_KeepsRecord(w) ==
    /\ wk[w].pc = "cleanup"
    /\ Raised(w, wk[w].exc)
    /\ UNCHANGED <<idem, inventory, reservations, ncalls, fcount, fdone, inputVars>>

\* except Exception: table.delete_item(...); raise
IdemCleanup(w) ==
    /\ wk[w].pc = "cleanup"
    /\ idem' = Delete(idem, wk[w].key)
    /\ Raised(w, wk[w].exc)
    /\ UNCHANGED <<inventory, reservations, ncalls, fcount, fdone, inputVars>>

\* table.update_item(SET status = COMPLETE, result = json.dumps(result)); return result
IdemCache(w) ==
    /\ wk[w].pc = "cache"
    /\ idem' = UpdateItem(idem, wk[w].key,
                          [status |-> "COMPLETE", result |-> JsonDumps(wk[w].res)])
    /\ Returned(w, wk[w].res)
    /\ UNCHANGED <<inventory, reservations, ncalls, fcount, fdone, inputVars>>

\* the wrapped function returned / raised: the wrapper goes on to cache / clean up
FnReturned(w, val) ==
    /\ wk' = [wk EXCEPT ![w].pc = "cache", ![w].res = val]
    /\ fdone' = Put(fdone, wk[w].key, Attr(fdone, wk[w].key, 0) + 1)

FnRaised(w, e) ==
    /\ wk' = [wk EXCEPT ![w].pc = "cleanup", ![w].exc = e]
    /\ UNCHANGED fdone

----------------------------------------------------------------------------
(* tests/unit/test_idempotency.py: the wrapped functions my_fn and flaky_fn *)

\* wrapper(*args): key = key_fn(*args)
CallF(w, k) ==
    /\ wk[w].pc = "idle"
    /\ ncalls' = ncalls + 1
    /\ wk' = [wk EXCEPT ![w] = [IdleWorker EXCEPT !.pc = "claim", !.op = "f",
                                                  !.key = k, !.cid = NewId]]
    /\ UNCHANGED <<idem, inventory, reservations, outs, fcount, fdone, inputVars>>

\* my_fn: call_count[0] += 1; return {"result": "hello", "count": call_count[0]}
MyFnReturns(w) ==
    /\ wk[w].pc = "run"
    /\ wk[w].op = "f"
    /\ fcount' = fcount + 1
    /\ FnReturned(w, [result |-> "hello", count |-> fcount + 1])
    /\ UNCHANGED <<idem, inventory, reservations, ncalls, outs, inputVars>>

\* flaky_fn: call_count[0] += 1; raise RuntimeError("Transient failure")
FlakyFnRaises(w) ==
    /\ wk[w].pc = "run"
    /\ wk[w].op = "f"
    /\ fcount' = fcount + 1
    /\ FnRaised(w, "RuntimeError")
    /\ UNCHANGED <<idem, inventory, reservations, ncalls, outs, inputVars>>

\* no invocation has run yet
InitWorkers ==
    /\ now = 0
    /\ ninvoked = 0
    /\ ledger = <<>>
    /\ consecFail = 0
    /\ lastFail = 0
    /\ idem = <<>>
    /\ reservations = <<>>
    /\ wk = [w \in Workers |-> IdleWorker]
    /\ ncalls = 0
    /\ outs = <<>>
    /\ fcount = 0
    /\ fdone = <<>>
    /\ orders = <<>>
    /\ payments = <<>>
    /\ saga = <<>>
    /\ queue = {}
    /\ events = <<>>
    /\ bus = {}

\* every table is empty
InitStore ==
    /\ InitWorkers
    /\ cb = <<>>

InitIdem ==
    /\ InitStore
    /\ inventory = <<>>
    /\ orderItems = <<>>
    /\ initStock = <<>>

NextIdem ==
    \E w \in Workers :
        \/ \E k \in IdemKeys : ncalls < MaxCalls /\ CallF(w, k)
        \/ IdemClaim(w)
        \/ IdemGet(w)
        \/ IdemDeleteUnknown(w)
        \/ MyFnReturns(w)
        \/ FlakyFnRaises(w)
        \/ IdemCleanup(w)
        \/ IdemCache(w)

SpecIdem == InitIdem /\ [][NextIdem]_vars

(* test_idempotent_cleans_up_on_exception: one caller, calls made one after *)
(* another, the wrapped function raising or returning.                      *)

RetryKeys == {"retry-key", "k1"}

NextIdemSeq ==
    \/ \E k \in RetryKeys : ncalls < MaxCalls /\ CallF("w1", k)
    \/ IdemClaim("w1")
    \/ IdemGet("w1")
    \/ MyFnReturns("w1")
    \/ FlakyFnRaises("w1")
    \/ IdemCleanup("w1")
    \/ IdemCache("w1")

SpecIdemSeq == InitIdem /\ [][NextIdemSeq]_vars

(* A process that dies between the claiming put and the delete or the       *)
(* caching update leaves the record IN_FLIGHT; the store removes a record   *)
(* when its ttl has passed.                                                 *)

\* invocation w has claimed its key and has not yet released or completed it
Holds(w) == wk[w].pc \notin {"idle", "claim", "get", "del_unknown"}

\* the process running invocation w dies: nothing more is written
Crash(w) ==
    /\ Holds(w)
    /\ wk' = [wk EXCEPT ![w] = IdleWorker]
    /\ UNCHANGED <<idem, inventory, reservations, ncalls, outs, fcount, fdone, inputVars>>

\* the ttl of a record (24 hours) outlasts the invocation that wrote it;
\* other callers may be in the middle of a call when it is removed
TtlEvict(key) ==
    /\ Expired(key)
    /\ \A w \in Workers : ~(Holds(w) /\ wk[w].key = key)
    /\ idem' = Delete(idem, key)
    /\ UNCHANGED <<inventory, reservations, wk, ncalls, outs, fcount, fdone, inputVars>>

NextIdemCrash ==
    \/ \E w \in {"w1", "w2"} :
          \/ \E k \in IdemKeys : ncalls < MaxCalls /\ CallF(w, k)
          \/ IdemClaim(w)
          \/ IdemGet(w)
          \/ IdemDeleteUnknown(w)
          \/ MyFnReturns(w)
          \/ FlakyFnRaises(w)
          \/ IdemCleanup(w)
          \/ IdemCache(w)
          \/ Crash(w)
    \/ \E k \in IdemKeys : TtlEvict(k)
    \/ Tick

SpecIdemCrash == InitIdem /\ [][NextIdemCrash]_vars

----------------------------------------------------------------------------
(* inventory_service/handler.py *)

Products == {"p1", "p2"}

Orders == {"o1", "o2", "o3"}

ReserveKey(order_id) == "reserve-" \o order_id

ReleaseKey(reservation_id) == "release-" \o reservation_id

\* handler(event) with action = "reserve": _reserve(event); reservation_id = str(uuid.uuid4())
\* the reservation_id a Reserve of the order has returned so far ("-" when none has)
PriorReservation(order_id) ==
    LET done == {c \in DOMAIN outs : /\ outs[c].key = ReserveKey(order_id)
                                      /\ outs[c].kind = "ret"
                                      /\ Attr(outs[c].val, "success", FALSE)}
    IN IF done = {} THEN "-" ELSE outs[CHOOSE c \in done : TRUE].val.reservation_id

\* the quantity of every product as the inventory table holds it
Quantities == [p \in DOMAIN inventory |-> Attr(inventory[p], "quantity", 0)]

ReserveInvocation(w, order_id, items) ==
    /\ wk[w].pc = "idle"
    /\ ncalls' = ncalls + 1
    /\ wk' = [wk EXCEPT ![w] = [IdleWorker EXCEPT !.pc = "claim", !.op = "reserve",
                                  !.key = ReserveKey(order_id), !.cid = NewId,
                                  !.order = order_id, !.rid = NewId,
                                  !.items = items, !.i = 1,
                                  !.seen = PriorReservation(order_id),
                                  !.snap = Quantities]]

\* a Reserve request for order o
CallReserve(w, o) ==
    /\ ReserveInvocation(w, o, orderItems[o])
    /\ UNCHANGED <<idem, inventory, reservations, outs, fcount, fdone, inputVars>>

\* handler(event) with action = "release": _release(event)
ReleaseInvocation(w, reservation_id) ==
    /\ wk[w].pc = "idle"
    /\ ncalls' = ncalls + 1
    /\ wk' = [wk EXCEPT ![w] = [IdleWorker EXCEPT !.pc = "claim", !.op = "release",
                                  !.key = ReleaseKey(reservation_id), !.cid = NewId,
                                  !.rid = reservation_id]]

\* a Release request for reservation rid
CallRelease(w, rid) ==
    /\ ReleaseInvocation(w, rid)
    /\ UNCHANGED <<idem, inventory, reservations, outs, fcount, fdone, inputVars>>

\* the condition written as a strict comparison
StockSuffices_Strict(product_id, n) ==
    /\ product_id \in DOMAIN inventory
    /\ inventory[product_id].quantity > n

\* the decrement without its ConditionExpression
StockSuffices_Unconditional(product_id, n) == product_id \in DOMAIN inventory

\* _decrement_stock: ConditionExpression="quantity >= :n"
StockSuffices(product_id, n) ==
    /\ product_id \in DOMAIN inventory
    /\ inventory[product_id].quantity >= n

\* _do_reserve: for item in items: _decrement_stock(item.product_id, item.quantity, order_id)
ReserveDecrement(w) ==
    /\ wk[w].pc = "res_dec"
    /\ LET item == wk[w].items[wk[w].i] IN
       IF StockSuffices(item.product_id, item.quantity)
       THEN /\ inventory' = UpdateItem(inventory, item.product_id,
                    [quantity |-> inventory[item.product_id].quantity - item.quantity])
            /\ wk' = [wk EXCEPT ![w].i = @ + 1,
                                ![w].pc = IF wk[w].i = Len(wk[w].items)
                                          THEN "res_put" ELSE "res_dec"]
            /\ UNCHANGED fdone
       ELSE /\ FnRaised(w, "InsufficientStockError")
            /\ UNCHANGED inventory
    /\ UNCHANGED <<idem, reservations, ncalls, outs, fcount, inputVars>>

\* _do_reserve: _res_table().put_item(...ACTIVE...); return {"success": True, "reservation_id": ...}
ReservePut(w) ==
    /\ wk[w].pc = "res_put"
    /\ reservations' = Put(reservations, wk[w].rid,
            [order_id |-> wk[w].order, items |-> wk[w].items, status |-> "ACTIVE"])
    /\ FnReturned(w, [success |-> TRUE, reservation_id |-> wk[w].rid])
    /\ UNCHANGED <<idem, inventory, ncalls, outs, fcount, inputVars>>

\* _do_release: reservation = get_item(...).get("Item"); if not reservation: nothing to release
ReleaseGet(w) ==
    /\ wk[w].pc = "rel_get"
    /\ IF wk[w].rid \notin DOMAIN reservations
       THEN FnReturned(w, [success |-> TRUE, message |-> "Nothing to release"])
       ELSE /\ wk' = [wk EXCEPT ![w].items = reservations[wk[w].rid].items, ![w].i = 1,
                                ![w].pc = "rel_add"]
            /\ UNCHANGED fdone
    /\ UNCHANGED <<idem, inventory, reservations, ncalls, outs, fcount, inputVars>>

AddQuantity_Twice(q, n) == q + n + n

\* UpdateExpression="ADD quantity :n"
AddQuantity(q, n) == q + n

\* _do_release: for item in items: update_item(UpdateExpression="ADD quantity :n")
ReleaseAdd(w) ==
    /\ wk[w].pc = "rel_add"
    /\ LET item == wk[w].items[wk[w].i] IN
       inventory' = UpdateItem(inventory, item.product_id,
            [quantity |-> AddQuantity(Attr(GetItem(inventory, item.product_id),
                                           "quantity", 0), item.quantity)])
    /\ wk' = [wk EXCEPT ![w].i = @ + 1,
                        ![w].pc = IF wk[w].i = Len(wk[w].items) THEN "rel_mark" ELSE "rel_add"]
    /\ UNCHANGED <<idem, reservations, ncalls, outs, fcount, fdone, inputVars>>

\* _do_release: update_item(SET status = RELEASED); return {"success": True}
ReleaseMark(w) ==
    /\ wk[w].pc = "rel_mark"
    /\ reservations' = UpdateItem(reservations, wk[w].rid, [status |-> "RELEASED"])
    /\ FnReturned(w, [success |-> TRUE])
    /\ UNCHANGED <<idem, inventory, ncalls, outs, fcount, inputVars>>

\* the steps of the wrapper and of the inventory handler bodies
InventoryStep(w) ==
    \/ IdemClaim(w)
    \/ IdemGet(w)
    \/ IdemDeleteUnknown(w)
    \/ IdemCleanup(w)
    \/ IdemCache(w)
    \/ ReserveDecrement(w)
    \/ ReservePut(w)
    \/ ReleaseGet(w)
    \/ ReleaseAdd(w)
    \/ ReleaseMark(w)

\* reservation ids that a Reserve invocation has returned to its caller
ReturnedReservations ==
    {outs[c].val.reservation_id :
        c \in {d \in DOMAIN outs : /\ outs[d].kind = "ret"
                                    /\ "reservation_id" \in DOMAIN outs[d].val}}

(* Concurrent Reserve and Release invocations over a seeded catalogue. *)

MaxStock == 2

Item(p, n) == [product_id |-> p, quantity |-> n]

\* the seeded catalogue and the orders placed on it
InitCatalogue ==
    /\ orderItems = [o \in Orders |->
            CASE o = "o1" -> << Item("p1", 1), Item("p2", 1) >>
              [] o = "o2" -> << Item("p1", 2) >>
              [] OTHER    -> << Item("p2", 1) >>]
    /\ \E k1 \in 1..MaxStock, k2 \in 0..1 :
          initStock = [p \in Products |-> IF p = "p1" THEN k1 ELSE k2]
    /\ inventory = [p \in Products |-> [quantity |-> initStock[p]]]

InitInv ==
    /\ InitStore
    /\ InitCatalogue

InvWorkers == {"w1", "w2"}

NextInv ==
    \E w \in InvWorkers :
        \/ \E o \in {"o1", "o2"} : ncalls < MaxCalls /\ CallReserve(w, o)
        \/ \E rid \in ReturnedReservations : ncalls < MaxCalls /\ CallRelease(w, rid)
        \/ InventoryStep(w)

SpecInv == InitInv /\ [][NextInv]_vars

(* The same invocations made one after another by a single caller. *)

NextInvSeq ==
    \/ \E o \in {"o1", "o2"} : ncalls < MaxCalls /\ CallReserve("w1", o)
    \/ \E rid \in ReturnedReservations : ncalls < MaxCalls /\ CallRelease("w1", rid)
    \/ IdemClaim("w1")
    \/ IdemGet("w1")
    \/ IdemCache("w1")
    \/ ReserveDecrement("w1")
    \/ ReservePut("w1")
    \/ ReleaseGet("w1")
    \/ ReleaseAdd("w1")
    \/ ReleaseMark("w1")

SpecInvSeq == InitInv /\ [][NextInvSeq]_vars

(* The idempotency table has time_to_live_attribute = "ttl": the store      *)
(* removes a record once its ttl (claim time + IDEMPOTENCY_TTL_SECONDS) has *)
(* passed.  An invocation is far shorter than the ttl, so a record expires  *)
(* only while no invocation is running.                                     *)

InventoryKeys ==
    {ReserveKey(o) : o \in Orders} \cup {ReleaseKey(ToString(n)) : n \in 1..MaxCalls}

TtlExpire(key) ==
    /\ Expired(key)
    /\ \A w \in Workers : wk[w].pc = "idle"
    /\ idem' = Delete(idem, key)
    /\ UNCHANGED <<inventory, reservations, wk, ncalls, outs, fcount, fdone, inputVars>>

NextInvTtl ==
    \/ NextInvSeq
    \/ \E key \in InventoryKeys : TtlExpire(key)
    \/ Tick

SpecInvTtl == InitInv /\ [][NextInvTtl]_vars

(* Infrastructure failures: any call to the store may raise (ClientError).  *)
(* Inside the wrapped function the exception reaches the wrapper's except   *)
(* branch; in the wrapper's own calls (the claiming put, the read, the      *)
(* deletes, the caching update) it leaves the invocation as it is.          *)

StoreCallFails(w) ==
    /\ wk[w].pc \in {"res_dec", "res_put", "rel_get", "rel_add", "rel_mark", "chg_resp",
                     "claim", "get", "del_unknown", "cleanup", "cache"}
    /\ IF wk[w].pc \in {"res_dec", "res_put", "rel_get", "rel_add", "rel_mark", "chg_resp"}
       THEN FnRaised(w, "ClientError") /\ UNCHANGED outs
       ELSE Raised(w, "ClientError") /\ UNCHANGED fdone
    /\ UNCHANGED <<idem, inventory, reservations, ncalls, fcount, inputVars>>

(* Reserve and Release attempts for one order, made one after another and   *)
(* repeated with the same key after a failure.                              *)

NextInvRetry ==
    \/ ncalls < MaxCalls /\ CallReserve("w1", "o1")
    \/ \E rid \in ReturnedReservations : ncalls < MaxCalls /\ CallRelease("w1", rid)
    \/ IdemClaim("w1")
    \/ IdemGet("w1")
    \/ IdemCleanup("w1")
    \/ IdemCache("w1")
    \/ ReserveDecrement("w1")
    \/ ReservePut("w1")
    \/ ReleaseGet("w1")
    \/ ReleaseAdd("w1")
    \/ ReleaseMark("w1")
    \/ StoreCallFails("w1")

\* every product is stocked, so that no attempt is refused for lack of stock
\* before a failure has happened
InitRetry ==
    /\ InitInv
    /\ initStock = [p \in Products |-> IF p = "p1" THEN MaxStock ELSE 1]

SpecInvRetry == InitRetry /\ [][NextInvRetry]_vars

(* scripts/load_test.py: N concurrent Reserve invocations with distinct     *)
(* order_ids, each for q units of one product seeded with k units.          *)

MaxLoadStock == 4

MaxLoadQty == 2

InitLoad ==
    /\ InitStore
    /\ \E q \in 1..MaxLoadQty : orderItems = [o \in Orders |-> << Item("p1", q) >>]
    /\ \E k \in 0..MaxLoadStock : initStock = [p \in {"p1"} |-> k]
    /\ inventory = [p \in {"p1"} |-> [quantity |-> initStock[p]]]

ReserveStarted(o) ==
    \/ \E w \in Workers : wk[w].op = "reserve" /\ wk[w].order = o
    \/ \E c \in DOMAIN outs : outs[c].key = ReserveKey(o)

\* every key is claimed by one invocation only, so the wrapper's get path is not taken
NextLoad ==
    \E w \in Workers :
        \/ \E o \in Orders : ~ReserveStarted(o) /\ CallReserve(w, o)
        \/ IdemClaim(w)
        \/ ReserveDecrement(w)
        \/ ReservePut(w)
        \/ IdemCleanup(w)
        \/ IdemCache(w)

SpecLoad == InitLoad /\ [][NextLoad]_vars

----------------------------------------------------------------------------
(* shared/circuit_breaker.py: CircuitBreaker *)

BreakerName == "test-halfopen"

FailureThreshold == 2

SuccessThreshold == 2

TimeoutSeconds == 1

\* _get_state: the stored item, or the default CLOSED state when there is none
GetState ==
    IF BreakerName \in DOMAIN cb
    THEN cb[BreakerName]
    ELSE [name |-> BreakerName, circuit_state |-> "CLOSED",
          failure_count |-> 0, success_count |-> 0]

\* int(time.time() + self.timeout_seconds), as a time in ticks
ResetsAt(t) ==
    ((t + TimeoutSeconds * TicksPerSecond) \div TicksPerSecond) * TicksPerSecond

\* the cooldown test that still rejects at resets_at itself
StillOpen_Inclusive(t, resets_at) == t <= resets_at

\* time.time() < resets_at
StillOpen(t, resets_at) == t < resets_at

\* cb.call(fn) invoked directly (unit tests)
CallBreaker(w) ==
    /\ wk[w].pc = "idle"
    /\ ncalls' = ncalls + 1
    /\ wk' = [wk EXCEPT ![w] = [IdleWorker EXCEPT !.pc = "cb_start", !.op = "cbcall",
                                                  !.key = BreakerName, !.cid = NewId]]
    /\ UNCHANGED <<idem, inventory, reservations, outs, fcount, fdone, inputVars>>

\* call(): an exception leaves cb.call
CbRaise(w, e, arg) ==
    CASE wk[w].op = "cbcall" -> RaisedWith(w, e, arg) /\ UNCHANGED fdone
      [] wk[w].op \in {"charge", "refund"} ->
            /\ wk' = [wk EXCEPT ![w].pc = "cleanup", ![w].exc = e, ![w].excarg = arg]
            /\ UNCHANGED <<outs, fdone>>

\* call(): return result
CbReturn(w, val) ==
    CASE wk[w].op = "cbcall" -> Returned(w, val) /\ UNCHANGED fdone
      [] wk[w].op = "charge" ->
            /\ wk' = [wk EXCEPT ![w].pc = "chg_resp", ![w].fnres = val]
            /\ UNCHANGED <<outs, fdone>>
      [] wk[w].op = "refund" ->
            /\ wk' = [wk EXCEPT ![w].pc = "rf_mark", ![w].fnres = val]
            /\ UNCHANGED <<outs, fdone>>

\* call(): state = self._get_state(); if OPEN: reject while time.time() < resets_at,
\* else go on to the HALF_OPEN transition.  state["circuit_state"] raises KeyError
\* when the stored item has no such attribute.
CbStart(w) ==
    /\ wk[w].pc = "cb_start"
    /\ LET state == GetState IN
       IF "circuit_state" \notin DOMAIN state
       THEN CbRaise(w, "KeyError", 0) /\ consecFail' = consecFail + 1 /\ lastFail' = now
       ELSE /\ UNCHANGED <<consecFail, lastFail>>
            /\ IF state.circuit_state = "OPEN"
               THEN IF StillOpen(now, Attr(state, "resets_at", 0))
                    THEN CbRaise(w, "CircuitBreakerOpenError", Attr(state, "resets_at", 0))
                    ELSE /\ wk' = [wk EXCEPT ![w].pc = "cb_half", ![w].st = state]
                         /\ UNCHANGED <<outs, fdone>>
               ELSE /\ wk' = [wk EXCEPT ![w].pc = "cb_invoke", ![w].st = state]
                    /\ UNCHANGED <<outs, fdone>>
    /\ UNCHANGED <<idem, inventory, reservations, ncalls, fcount, orderItems, initStock,
                   now, cb, ninvoked, ledger, sagaVars>>

\* _transition_to_half_open
CbTransitionToHalfOpen(w) ==
    /\ wk[w].pc = "cb_half"
    /\ cb' = UpdateItem(cb, BreakerName, [circuit_state |-> "HALF_OPEN", success_count |-> 0])
    /\ wk' = [wk EXCEPT ![w].pc = "cb_reread"]
    /\ UNCHANGED <<nonCbVars, now, outs, ninvoked, ledger, consecFail, lastFail>>

\* state = self._get_state()   (re-read after the transition)
CbReread(w) ==
    /\ wk[w].pc = "cb_reread"
    /\ wk' = [wk EXCEPT ![w].pc = "cb_invoke", ![w].st = GetState]
    /\ UNCHANGED <<nonCbVars, now, outs, cbVars>>

\* result = fn(*args, **kwargs) returns
CbInvokeReturns(w, val) ==
    /\ wk[w].pc = "cb_invoke"
    /\ wk' = [wk EXCEPT ![w].pc = "cb_ok", ![w].fnres = val, ![w].at = now]
    /\ ninvoked' = ninvoked + 1
    /\ ledger' = CASE wk[w].op = "charge" /\ Attr(val, "success", FALSE) ->
                         Put(ledger, wk[w].order, Attr(ledger, wk[w].order, 0) + 1)
                   [] wk[w].op = "refund" ->
                         Put(ledger, wk[w].key, Attr(ledger, wk[w].key, 0) + 1)
                   [] OTHER -> ledger
    /\ consecFail' = 0
    /\ UNCHANGED <<nonCbVars, now, outs, cb, lastFail>>

\* fn(*args, **kwargs) raises
CbInvokeRaises(w, e) ==
    /\ wk[w].pc = "cb_invoke"
    /\ wk' = [wk EXCEPT ![w].pc = "cb_fail", ![w].exc = e, ![w].at = now]
    /\ ninvoked' = ninvoked + 1
    /\ consecFail' = consecFail + 1
    /\ lastFail' = now
    /\ UNCHANGED <<nonCbVars, now, outs, cb, ledger>>

\* a returned response counted like a raised exception
SuccessUpdate_CountsFailure(prev) ==
    [failure_count |-> Attr(prev, "failure_count", 0) + 1]

\* a closing probe that leaves failure_count as it was
SuccessUpdate_KeepsFailures(prev) ==
    LET circuit_state == Attr(prev, "circuit_state", "CLOSED")
        new_successes == Attr(prev, "success_count", 0) + 1
    IN CASE circuit_state = "HALF_OPEN" /\ new_successes >= SuccessThreshold ->
                [circuit_state |-> "CLOSED", success_count |-> 0]
         [] circuit_state = "HALF_OPEN" /\ new_successes < SuccessThreshold ->
                [success_count |-> new_successes]
         [] circuit_state = "CLOSED" -> [failure_count |-> 0]
         [] OTHER -> <<>>

\* _record_success(prev_state): the attributes it sets (none when prev_state is OPEN)
SuccessUpdate(prev) ==
    LET circuit_state == Attr(prev, "circuit_state", "CLOSED")
        new_successes == Attr(prev, "success_count", 0) + 1
    IN CASE circuit_state = "HALF_OPEN" /\ new_successes >= SuccessThreshold ->
                [circuit_state |-> "CLOSED", failure_count |-> 0, success_count |-> 0]
         [] circuit_state = "HALF_OPEN" /\ new_successes < SuccessThreshold ->
                [success_count |-> new_successes]
         [] circuit_state = "CLOSED" -> [failure_count |-> 0]
         [] OTHER -> <<>>

\* self._record_success(state); return result
CbRecordSuccess(w) ==
    /\ wk[w].pc = "cb_ok"
    /\ LET upd == SuccessUpdate(wk[w].st) IN
       cb' = IF upd = <<>> THEN cb ELSE UpdateItem(cb, BreakerName, upd)
    /\ CbReturn(w, wk[w].fnres)
    /\ UNCHANGED <<idem, inventory, reservations, ncalls, fcount, orderItems, initStock,
                   now, ninvoked, ledger, consecFail, lastFail, sagaVars>>

\* _record_failure: does this failure open the circuit?
FailureOpens(new_failures, circuit_state) ==
    new_failures >= FailureThreshold /\ circuit_state # "OPEN"

\* _record_failure(prev_state): the attributes it sets
FailureUpdate(prev, t) ==
    LET new_failures == Attr(prev, "failure_count", 0) + 1
        circuit_state == Attr(prev, "circuit_state", "CLOSED")
    IN IF FailureOpens(new_failures, circuit_state)
       THEN [circuit_state |-> "OPEN", failure_count |-> new_failures,
             resets_at |-> ResetsAt(t), success_count |-> 0]
       ELSE [failure_count |-> new_failures]

\* self._record_failure(state); raise
CbRecordFailure(w) ==
    /\ wk[w].pc = "cb_fail"
    /\ cb' = UpdateItem(cb, BreakerName, FailureUpdate(wk[w].st, now))
    /\ CbRaise(w, wk[w].exc, 0)
    /\ UNCHANGED <<idem, inventory, reservations, ncalls, fcount, orderItems, initStock,
                   now, ninvoked, ledger, consecFail, lastFail, sagaVars>>

\* a reset that only sets circuit_state on the stored item
CbReset_KeepsCounters ==
    /\ cb' = UpdateItem(cb, BreakerName, [circuit_state |-> "CLOSED"])
    /\ consecFail' = 0
    /\ UNCHANGED <<nonCbVars, now, wk, outs, ninvoked, ledger, lastFail>>

\* reset(): put_item of a CLOSED item with zero counters
CbReset ==
    /\ cb' = Put(cb, BreakerName, [name |-> BreakerName, circuit_state |-> "CLOSED",
                                    failure_count |-> 0, success_count |-> 0])
    /\ consecFail' = 0
    /\ UNCHANGED <<nonCbVars, now, wk, outs, ninvoked, ledger, lastFail>>

\* the steps of cb.call with the unit tests' callables (lambda: "ok", always_fails)
BreakerStep(w) ==
    \/ CbStart(w)
    \/ CbTransitionToHalfOpen(w)
    \/ CbReread(w)
    \/ CbInvokeReturns(w, [result |-> "ok"])
    \/ CbInvokeRaises(w, "ConnectionError")
    \/ CbRecordSuccess(w)
    \/ CbRecordFailure(w)

InitBreaker ==
    /\ InitStore
    /\ inventory = <<>>
    /\ orderItems = <<>>
    /\ initStock = <<>>

(* One caller: the calls are made one after another, reset() between calls. *)

NextBreakerSeq ==
    \/ ncalls < MaxCalls /\ CallBreaker("w1")
    \/ BreakerStep("w1")
    \/ wk["w1"].pc = "idle" /\ CbReset
    \/ Tick

SpecBreakerSeq == InitBreaker /\ [][NextBreakerSeq]_vars

(* Several callers share the breaker through the store. *)

NextBreaker ==
    \/ \E w \in InvWorkers :
          \/ ncalls < MaxCalls /\ CallBreaker(w)
          \/ BreakerStep(w)
    \/ CbReset
    \/ Tick

SpecBreaker == InitBreaker /\ [][NextBreaker]_vars

(* Callers of a dependency that is down: every invocation raises.  The      *)
(* table starts empty, or holds the item written by reset().                *)

MaxFailingCalls == 5

InitFailing ==
    /\ InitWorkers
    /\ cb \in { <<>>,
                 Put(<<>>, BreakerName, [name |-> BreakerName, circuit_state |-> "CLOSED",
                                         failure_count |-> 0, success_count |-> 0]) }
    /\ inventory = <<>>
    /\ orderItems = <<>>
    /\ initStock = <<>>

\* the steps of cb.call(always_fails)
FailingStep(w) ==
    \/ ncalls < MaxFailingCalls /\ CallBreaker(w)
    \/ CbStart(w)
    \/ CbTransitionToHalfOpen(w)
    \/ CbReread(w)
    \/ CbInvokeRaises(w, "ConnectionError")
    \/ CbRecordFailure(w)

NextBreakerFailing ==
    \/ \E w \in InvWorkers : FailingStep(w)
    \/ CbReset
    \/ Tick

SpecBreakerFailing == InitFailing /\ [][NextBreakerFailing]_vars

(* The same callers with no reset(): every call that has started runs to    *)
(* its end.                                                                 *)

NextBreakerUnattended ==
    \/ \E w \in InvWorkers : FailingStep(w)
    \/ Tick

SpecBreakerUnattended ==
    /\ InitFailing
    /\ [][NextBreakerUnattended]_vars
    /\ \A w \in InvWorkers : WF_vars(FailingStep(w))

----------------------------------------------------------------------------
(* services/payment_service/handler.py: charge                               *)
(* payment_circuit_breaker is an instance of the same CircuitBreaker class;  *)
(* the model keeps one breaker record, with the thresholds given above.      *)

ChargeKey(order_id) == "charge-" \o order_id

\* handler(event) with action = "charge": _charge(event); payment_id = str(uuid.uuid4())
ChargeInvocation(w, order_id) ==
    /\ wk[w].pc = "idle"
    /\ ncalls' = ncalls + 1
    /\ wk' = [wk EXCEPT ![w] = [IdleWorker EXCEPT !.pc = "claim", !.op = "charge",
                                  !.key = ChargeKey(order_id), !.cid = NewId,
                                  !.order = order_id, !.pid = NewId]]

\* what the provider call returns: a charge, or a business decline
ProviderResponses ==
    { [success |-> TRUE, charge_id |-> "ch"],
      [success |-> FALSE, decline_reason |-> "Card declined"] }

\* _do_charge after the breaker call: raise PaymentDeclinedError unless
\* provider_response.get("success"); payments_table.put_item(...CHARGED...); return
ChargePersist(w) ==
    /\ wk[w].pc = "chg_resp"
    /\ IF Attr(wk[w].fnres, "success", FALSE)
       THEN /\ payments' = Put(payments, wk[w].pid,
                    [order_id |-> wk[w].order, status |-> "CHARGED",
                     provider_charge_id |-> wk[w].fnres.charge_id])
            /\ FnReturned(w, [success |-> TRUE, payment_id |-> wk[w].pid])
       ELSE /\ FnRaised(w, "PaymentDeclinedError")
            /\ UNCHANGED payments
    /\ UNCHANGED <<idem, inventory, reservations, ncalls, outs, fcount, orderItems,
                   initStock, now, cbVars, orders, saga, queue, events, bus>>

\* the steps of the payment handler around the wrapper: the breaker call, the
\* provider's outcomes, and the persisting of the charge
PaymentStep(w) ==
    \/ CbStart(w)
    \/ CbTransitionToHalfOpen(w)
    \/ CbReread(w)
    \/ \E r \in ProviderResponses : CbInvokeReturns(w, r)
    \/ CbInvokeRaises(w, "ConnectionError")
    \/ CbRecordSuccess(w)
    \/ CbRecordFailure(w)
    \/ ChargePersist(w)

\* a Charge request for order o
CallCharge(w, o) ==
    /\ ChargeInvocation(w, o)
    /\ UNCHANGED <<idem, inventory, reservations, outs, fcount, fdone, inputVars>>

(* Charge requests made one after another, reset() as the operator's action *)
(* between them.                                                            *)

NextPaySeq ==
    \/ \E o \in {"o1", "o2"} : ncalls < MaxCalls /\ CallCharge("w1", o)
    \/ IdemClaim("w1")
    \/ IdemGet("w1")
    \/ IdemCleanup("w1")
    \/ IdemCache("w1")
    \/ PaymentStep("w1")
    \/ wk["w1"].pc = "idle" /\ CbReset
    \/ Tick

SpecPaySeq == InitBreaker /\ [][NextPaySeq]_vars

(* services/payment_service/handler.py: refund                              *)

\* handler(event) with action = "refund": _refund(event) returns at once when the
\* event has no payment_id, and goes through the wrapper otherwise
CallRefund(w, o, payment_id) ==
    /\ wk[w].pc = "idle"
    /\ ncalls' = ncalls + 1
    /\ IF payment_id = "null"
       THEN /\ outs' = Put(outs, NewId,
                    [key |-> "-", kind |-> "ret",
                     val |-> [success |-> TRUE, message |-> "Nothing to refund"],
                     after |-> "-", before |-> <<>>])
            /\ UNCHANGED wk
       ELSE /\ wk' = [wk EXCEPT ![w] = [IdleWorker EXCEPT !.pc = "claim", !.op = "refund",
                                          !.key = "refund-" \o payment_id, !.cid = NewId,
                                          !.order = o, !.pid = payment_id]]
            /\ UNCHANGED outs
    /\ UNCHANGED <<idem, inventory, reservations, fcount, fdone, inputVars>>

\* _do_refund: payments_table.get_item; no Item -> return "Nothing to refund";
\* otherwise call the provider through the breaker
RefundGet(w) ==
    /\ wk[w].pc = "rf_get"
    /\ IF wk[w].pid \in DOMAIN payments
       THEN wk' = [wk EXCEPT ![w].pc = "cb_start"] /\ UNCHANGED fdone
       ELSE FnReturned(w, [success |-> TRUE, message |-> "Nothing to refund"])
    /\ UNCHANGED <<idem, inventory, reservations, ncalls, outs, fcount, orderItems,
                   initStock, now, cbVars, sagaVars>>

\* _do_refund after the breaker call: update_item(SET status = REFUNDED); return
RefundMark(w) ==
    /\ wk[w].pc = "rf_mark"
    /\ payments' = UpdateItem(payments, wk[w].pid, [status |-> "REFUNDED"])
    /\ FnReturned(w, [success |-> TRUE])
    /\ UNCHANGED <<idem, inventory, reservations, ncalls, outs, fcount, orderItems,
                   initStock, now, cbVars, orders, saga, queue, events, bus>>

(* Charge and Refund requests for one order made one after another, reset() *)
(* as the operator's action between them.  The payment_id of a refund event *)
(* is none ("null"), an id no Charge has returned (ids are uuid4 values, so *)
(* it is never assigned later), or the id of a recorded Payment.            *)

NextRefundSeq ==
    \/ ncalls < MaxCalls /\ CallCharge("w1", "o1")
    \/ \E payment_id \in {"null", "unknown"} \cup DOMAIN payments :
          ncalls < MaxCalls /\ CallRefund("w1", "o1", payment_id)
    \/ IdemClaim("w1")
    \/ IdemGet("w1")
    \/ IdemCleanup("w1")
    \/ IdemCache("w1")
    \/ PaymentStep("w1")
    \/ RefundGet("w1")
    \/ RefundMark("w1")
    \/ wk["w1"].pc = "idle" /\ CbReset
    \/ Tick

SpecRefundSeq == InitBreaker /\ [][NextRefundSeq]_vars

(* Charge requests for one order, repeated with the same key after an       *)
(* infrastructure failure of a store call.                                  *)

NextPayRetry ==
    \/ ncalls < MaxCalls /\ CallCharge("w1", "o1")
    \/ IdemClaim("w1")
    \/ IdemGet("w1")
    \/ IdemCleanup("w1")
    \/ IdemCache("w1")
    \/ PaymentStep("w1")
    \/ StoreCallFails("w1")
    \/ wk["w1"].pc = "idle" /\ CbReset
    \/ Tick

SpecPayRetry == InitBreaker /\ [][NextPayRetry]_vars

(* The step handlers invoked one after another, as the orchestrator does:   *)
(* Reserve, Release and Charge requests for the orders of the catalogue,    *)
(* with reset() as the operator's action between invocations.               *)

NextStepsSeq ==
    \/ \E o \in {"o1", "o2"} : ncalls < MaxCalls /\ CallReserve("w1", o)
    \/ \E rid \in ReturnedReservations : ncalls < MaxCalls /\ CallRelease("w1", rid)
    \/ \E o \in {"o1", "o2"} : ncalls < MaxCalls /\ CallCharge("w1", o)
    \/ IdemClaim("w1")
    \/ IdemGet("w1")
    \/ IdemCleanup("w1")
    \/ IdemCache("w1")
    \/ ReserveDecrement("w1")
    \/ ReservePut("w1")
    \/ ReleaseGet("w1")
    \/ ReleaseAdd("w1")
    \/ ReleaseMark("w1")
    \/ PaymentStep("w1")
    \/ wk["w1"].pc = "idle" /\ CbReset
    \/ Tick

\* p1 stocked for one of the two orders, p2 out of stock
InitSteps ==
    /\ InitInv
    /\ initStock = [p \in Products |-> IF p = "p1" THEN MaxStock ELSE 0]

SpecStepsSeq == InitSteps /\ [][NextStepsSeq]_vars

----------------------------------------------------------------------------
(* services/order_service/handler.py and infrastructure/cloudflow/           *)
(* saga_stack.py: the order saga as a Step Functions state machine.          *)
(* An execution is a record: state (the state it is in), status, error, ctx  *)
(* (the JSON document passed from state to state), task (the id of the       *)
(* Lambda invocation it waits for), and the bodies the Reserve and Charge    *)
(* tasks returned to it.                                                     *)

MaxSagas == 1

SagaOrders == {"o1", "o2"}

\* SagaContext(...).model_dump_json(): the execution input
SagaContext(o) ==
    [order_id |-> o, customer_id |-> "cust-" \o o, total_cents |-> 100,
     items |-> orderItems[o], correlation_id |-> "corr-" \o o,
     reservation_id |-> "null", payment_id |-> "null", error |-> "null"]

\* repo.create: the META item, written by put_item_with_optimistic_lock as version 1
NewOrder(o) == [order_id |-> o, status |-> "PENDING", version |-> 1]

\* repo._append_event: put_item with sk = EVENT#<int(time.time() * 1_000_000)>
AppendEvent(ev, o, status, t) == Put(ev, <<o, t>>, [status |-> status])

\* _emit_order_created_event: the entry put on the bus
OrderCreated(o) == [event_type |-> "cloudflow.order.created", order_id |-> o]

\* sfn_client.start_execution(name = order-saga-<order_id>, input = saga context)
NewExecution(o) ==
    [state |-> "ReserveInventory", status |-> "RUNNING", error |-> "-",
     ctx |-> SagaContext(o), task |-> "-", reserve |-> <<>>, charge |-> <<>>]

CreateOrder(o) ==
    /\ o \notin DOMAIN orders
    /\ Cardinality(DOMAIN saga) < MaxSagas
    /\ orders' = Put(orders, o, NewOrder(o))
    /\ events' = AppendEvent(events, o, "PENDING", now)
    /\ bus' = bus \cup {OrderCreated(o)}
    /\ saga' = Put(saga, o, NewExecution(o))
    /\ UNCHANGED <<idem, inventory, reservations, wk, ncalls, outs, fcount, fdone,
                   orderItems, initStock, now, cbVars, payments, queue>>

\* a JSONPath ("$.a.b.c" as <<"a", "b", "c">>) selects a value of the document
RECURSIVE HasPath(_, _)
HasPath(doc, path) ==
    \/ path = <<>>
    \/ Head(path) \in DOMAIN doc /\ HasPath(doc[Head(path)], Tail(path))

RECURSIVE AtPath(_, _)
AtPath(doc, path) == IF path = <<>> THEN doc ELSE AtPath(doc[Head(path)], Tail(path))

\* the execution of order o is in state `name`
InState(o, name) ==
    /\ o \in DOMAIN saga
    /\ saga[o].status = "RUNNING"
    /\ saga[o].state = name

\* the state's output document is doc and the execution moves to state `next`
Goto(o, next, doc) ==
    saga' = [saga EXCEPT ![o].state = next, ![o].ctx = doc, ![o].task = "-"]

\* the state fails with an error no Retry or Catch handles: the execution fails
ExecutionFailed(o, err) ==
    saga' = [saga EXCEPT ![o].status = "FAILED", ![o].error = err, ![o].task = "-"]

\* the JSONPaths of a task's payload / message_body
PayloadPaths(name) ==
    CASE name = "ReserveInventory" -> {<<"order_id">>, <<"items">>, <<"correlation_id">>}
      [] name = "ReleaseInventory" ->
            {<<"order_id">>, <<"inventory_result", "body", "reservation_id">>,
             <<"correlation_id">>}
      [] name = "ChargePayment" ->
            {<<"order_id">>, <<"customer_id">>, <<"total_cents">>, <<"correlation_id">>}
      [] name = "NotifyOrderConfirmed" ->
            {<<"order_id">>, <<"customer_id">>, <<"total_cents">>}
      [] name = "NotifyOrderFailed" -> {<<"order_id">>, <<"customer_id">>, <<"error">>}

PayloadResolves(o, name) == \A path \in PayloadPaths(name) : HasPath(saga[o].ctx, path)

\* the Lambda invocation a LambdaInvoke task makes with its payload
Invocation(name, w, doc) ==
    CASE name = "ReserveInventory" -> ReserveInvocation(w, doc.order_id, doc.items)
      [] name = "ReleaseInventory" ->
            ReleaseInvocation(w, AtPath(doc, <<"inventory_result", "body", "reservation_id">>))
      [] name = "ChargePayment" -> ChargeInvocation(w, doc.order_id)

\* result_selector and result_path of a LambdaInvoke task applied to the payload
\* the function returned
TaskOutput(name, doc, payload) ==
    CASE name = "ReserveInventory" -> Merge(doc, [inventory_result |-> [body |-> payload]])
      [] name = "ReleaseInventory" -> Merge(doc, [release_result |-> [Payload |-> payload]])
      [] name = "ChargePayment" -> Merge(doc, [payment_result |-> [body |-> payload]])

\* tasks.LambdaInvoke: resolve the payload (States.Runtime when a path selects
\* nothing), invoke the function, and on its return write the result into the
\* document; a function error fails the execution (no Catch is defined)
LambdaInvoke(o, name, next) ==
    /\ InState(o, name)
    /\ IF saga[o].task = "-"
       THEN IF PayloadResolves(o, name)
            THEN /\ \E w \in Workers : Invocation(name, w, saga[o].ctx)
                 /\ saga' = [saga EXCEPT ![o].task = NewId]
                 /\ UNCHANGED outs
            ELSE /\ ExecutionFailed(o, "States.Runtime")
                 /\ UNCHANGED <<wk, ncalls, outs>>
       ELSE /\ saga[o].task \in DOMAIN outs
            /\ LET out == outs[saga[o].task] IN
               IF out.kind = "ret"
               THEN saga' = [saga EXCEPT
                        ![o].state = next,
                        ![o].ctx = TaskOutput(name, saga[o].ctx, out.val),
                        ![o].task = "-",
                        ![o].reserve = IF name = "ReserveInventory" THEN out.val ELSE @,
                        ![o].charge = IF name = "ChargePayment" THEN out.val ELSE @]
               ELSE ExecutionFailed(o, out.val)
            /\ UNCHANGED <<wk, ncalls, outs>>
    /\ UNCHANGED <<idem, inventory, reservations, fcount, fdone, orderItems, initStock,
                   now, cbVars, orders, payments, queue, events, bus>>

\* what the states other than the Lambda tasks leave unchanged
SagaOnly ==
    UNCHANGED <<idem, inventory, reservations, wk, ncalls, outs, fcount, fdone,
                orderItems, initStock, now, cbVars, orders, payments, events, bus>>

ReserveInventory(o) == LambdaInvoke(o, "ReserveInventory", "InventoryReserved?")

\* Choice "InventoryReserved?": $.inventory_result.body.success == true
InventoryReserved(o) ==
    /\ InState(o, "InventoryReserved?")
    /\ IF AtPath(saga[o].ctx, <<"inventory_result", "body", "success">>) = TRUE
       THEN Goto(o, "ChargePayment", saga[o].ctx)
       ELSE Goto(o, "SetInventoryFailedError", saga[o].ctx)
    /\ SagaOnly /\ UNCHANGED queue

\* Pass with parameters = {"error": ...} and result_path = "$": the output document
\* is the parameters object
SetInventoryFailedError(o) ==
    /\ InState(o, "SetInventoryFailedError")
    /\ Goto(o, "NoInventoryToRelease", [error |-> "Insufficient stock"])
    /\ SagaOnly /\ UNCHANGED queue

NoInventoryToRelease(o) ==
    /\ InState(o, "NoInventoryToRelease")
    /\ Goto(o, "NotifyOrderFailed", saga[o].ctx)
    /\ SagaOnly /\ UNCHANGED queue

ChargePayment(o) == LambdaInvoke(o, "ChargePayment", "PaymentSucceeded?")

\* Choice "PaymentSucceeded?": $.payment_result.body.success == true
PaymentSucceeded(o) ==
    /\ InState(o, "PaymentSucceeded?")
    /\ IF AtPath(saga[o].ctx, <<"payment_result", "body", "success">>) = TRUE
       THEN Goto(o, "NotifyOrderConfirmed", saga[o].ctx)
       ELSE Goto(o, "SetPaymentFailedError", saga[o].ctx)
    /\ SagaOnly /\ UNCHANGED queue

SetPaymentFailedError(o) ==
    /\ InState(o, "SetPaymentFailedError")
    /\ Goto(o, "ReleaseInventory", [error |-> "Payment declined or provider unavailable"])
    /\ SagaOnly /\ UNCHANGED queue

ReleaseInventory(o) == LambdaInvoke(o, "ReleaseInventory", "NotifyOrderFailed")

\* tasks.SqsSendMessage with result_path = DISCARD: resolve the message body, send it;
\* the send either succeeds or fails with an error of the SQS call, which nothing
\* retries or catches
SqsSendMessage(o, name, notification_type, next) ==
    /\ InState(o, name)
    /\ IF PayloadResolves(o, name)
       THEN \/ /\ queue' = queue \cup {[notification_type |-> notification_type,
                                         order_id |-> saga[o].ctx.order_id]}
               /\ Goto(o, next, saga[o].ctx)
            \/ /\ ExecutionFailed(o, "SQS.SdkClientException")
               /\ UNCHANGED queue
       ELSE /\ ExecutionFailed(o, "States.Runtime")
            /\ UNCHANGED queue
    /\ SagaOnly

NotifyOrderConfirmed(o) ==
    SqsSendMessage(o, "NotifyOrderConfirmed", "ORDER_CONFIRMED", "OrderConfirmed")

NotifyOrderFailed(o) ==
    SqsSendMessage(o, "NotifyOrderFailed", "ORDER_FAILED", "OrderFailed")

\* sfn.Succeed "OrderConfirmed" / sfn.Fail "OrderFailed": the execution ends
Terminal(o) ==
    /\ o \in DOMAIN saga
    /\ saga[o].status = "RUNNING"
    /\ saga[o].state \in {"OrderConfirmed", "OrderFailed"}
    /\ saga' = [saga EXCEPT ![o].status = IF saga[o].state = "OrderConfirmed"
                                          THEN "SUCCEEDED" ELSE "FAILED",
                            ![o].error = IF saga[o].state = "OrderConfirmed"
                                         THEN "-" ELSE "SAGA compensation complete"]
    /\ SagaOnly /\ UNCHANGED queue


\* the breaker record after failure_threshold failures at time 0
OpenedRecord ==
    [name |-> BreakerName, circuit_state |-> "OPEN", failure_count |-> FailureThreshold,
     success_count |-> 0, resets_at |-> ResetsAt(0)]

(* Orders are created and their sagas run; the payment provider answers,    *)
(* declines or times out; the payment breaker starts without a record or    *)
(* already opened.                                                          *)

InitSaga ==
    /\ InitWorkers
    /\ InitCatalogue
    /\ cb \in {<<>>, [n \in {BreakerName} |-> OpenedRecord]}

NextSaga ==
    \/ \E o \in SagaOrders : CreateOrder(o)
    \/ \E o \in SagaOrders :
          \/ ReserveInventory(o)
          \/ InventoryReserved(o)
          \/ SetInventoryFailedError(o)
          \/ NoInventoryToRelease(o)
          \/ ChargePayment(o)
          \/ PaymentSucceeded(o)
          \/ SetPaymentFailedError(o)
          \/ ReleaseInventory(o)
          \/ NotifyOrderConfirmed(o)
          \/ NotifyOrderFailed(o)
          \/ Terminal(o)
    \/ \E w \in Workers :
          \/ IdemClaim(w)
          \/ IdemCleanup(w)
          \/ IdemCache(w)
          \/ ReserveDecrement(w)
          \/ ReservePut(w)
          \/ PaymentStep(w)
    \/ Tick

SpecSaga == InitSaga /\ [][NextSaga]_vars

----------------------------------------------------------------------------
(* services/order_service/handler.py: POST /orders through the idempotent   *)
(* wrapper, keyed by the Idempotency-Key header                             *)

CreateKeys == {"k1", "k2"}

\* handler(event) for POST /orders: _create_order(api_event)
CallCreateOrder(w, k) ==
    /\ wk[w].pc = "idle"
    /\ ncalls' = ncalls + 1
    /\ wk' = [wk EXCEPT ![w] = [IdleWorker EXCEPT !.pc = "claim", !.op = "create",
                                                  !.key = k, !.cid = NewId]]
    /\ UNCHANGED <<idem, inventory, reservations, outs, fcount, fdone, inputVars>>

\* _idempotent_create: order_id = str(uuid.uuid4()); repo.create(...) puts the order
CreateRepoPut(w) ==
    /\ wk[w].pc = "crt_put"
    /\ \E o \in SagaOrders \ DOMAIN orders :
          /\ orders' = Put(orders, o, NewOrder(o))
          /\ wk' = [wk EXCEPT ![w].pc = "crt_event", ![w].order = o]
    /\ UNCHANGED <<idem, inventory, reservations, ncalls, outs, fcount, fdone, orderItems,
                   initStock, now, cbVars, payments, saga, queue, events, bus>>

\* repo.create: self._append_event(order_id, OrderStatus.PENDING, {})
CreateAppendEvent(w) ==
    /\ wk[w].pc = "crt_event"
    /\ events' = AppendEvent(events, wk[w].order, "PENDING", now)
    /\ wk' = [wk EXCEPT ![w].pc = "crt_emit"]
    /\ UNCHANGED <<idem, inventory, reservations, ncalls, outs, fcount, fdone, orderItems,
                   initStock, now, cbVars, orders, payments, saga, queue, bus>>

\* _emit_order_created_event(order, correlation_id)
CreateEmit(w) ==
    /\ wk[w].pc = "crt_emit"
    /\ bus' = bus \cup {OrderCreated(wk[w].order)}
    /\ wk' = [wk EXCEPT ![w].pc = "crt_start"]
    /\ UNCHANGED <<idem, inventory, reservations, ncalls, outs, fcount, fdone, orderItems,
                   initStock, now, cbVars, orders, payments, saga, queue, events>>

\* sfn_client.start_execution(...); return {"order_id": order_id, "status": order["status"]}
CreateStartSaga(w) ==
    /\ wk[w].pc = "crt_start"
    /\ saga' = Put(saga, wk[w].order, NewExecution(wk[w].order))
    /\ FnReturned(w, [order_id |-> wk[w].order, status |-> "PENDING"])
    /\ UNCHANGED <<idem, inventory, reservations, ncalls, outs, fcount, orderItems,
                   initStock, now, cbVars, orders, payments, queue, events, bus>>

(* Submissions made one after another, each after the previous one returned. *)

InitCreate ==
    /\ InitStore
    /\ InitCatalogue

NextCreateSeq ==
    \/ \E k \in CreateKeys : ncalls < MaxCalls /\ CallCreateOrder("w1", k)
    \/ IdemClaim("w1")
    \/ IdemGet("w1")
    \/ IdemCache("w1")
    \/ CreateRepoPut("w1")
    \/ CreateAppendEvent("w1")
    \/ CreateEmit("w1")
    \/ CreateStartSaga("w1")
    \/ Tick

SpecCreateSeq == InitCreate /\ [][NextCreateSeq]_vars

(* POST /orders with and without the Idempotency-Key header. *)

\* handler(event) for POST /orders whose headers hold no Idempotency-Key
CallCreateOrderWithoutKey(w) ==
    /\ wk[w].pc = "idle"
    /\ ncalls' = ncalls + 1
    /\ wk' = [wk EXCEPT ![w] = [IdleWorker EXCEPT !.pc = "crt_key", !.op = "create",
                                                  !.cid = NewId]]
    /\ UNCHANGED <<idem, inventory, reservations, outs, fcount, fdone, inputVars>>

\* _create_order: IdempotencyKey.from_api_gateway(api_event): if not key: raise
\* ValueError("Missing required 'Idempotency-Key' header")
MissingIdempotencyKey(w) ==
    /\ wk[w].pc = "crt_key"
    /\ Raised(w, "ValueError")
    /\ UNCHANGED <<idem, inventory, reservations, ncalls, fcount, fdone, inputVars>>

NextCreateApi ==
    \/ NextCreateSeq
    \/ ncalls < MaxCalls /\ CallCreateOrderWithoutKey("w1")
    \/ MissingIdempotencyKey("w1")

SpecCreateApi == InitCreate /\ [][NextCreateApi]_vars

----------------------------------------------------------------------------
(* order_service/repository.py: OrderRepository used by several processes *)

\* shared/events.py: class OrderStatus
OrderStatus ==
    {"PENDING", "INVENTORY_RESERVED", "PAYMENT_CHARGED", "CONFIRMED",
     "INVENTORY_FAILED", "PAYMENT_FAILED", "FAILED", "COMPENSATING"}

\* repo.create(order_id, ...)
CallRepoCreate(w, o) ==
    /\ wk[w].pc = "idle"
    /\ o \notin DOMAIN orders
    /\ ncalls' = ncalls + 1
    /\ wk' = [wk EXCEPT ![w] = [IdleWorker EXCEPT !.pc = "rc_put", !.op = "repo_create",
                                                  !.key = o, !.cid = NewId, !.order = o]]
    /\ UNCHANGED <<idem, inventory, reservations, outs, fcount, fdone, inputVars>>

\* create: put_item_with_optimistic_lock(table, item) with version 0: the put is
\* conditional on Attr("pk").not_exists() and raises OptimisticLockError otherwise
RepoCreatePut(w) ==
    /\ wk[w].pc = "rc_put"
    /\ IF wk[w].order \notin DOMAIN orders
       THEN /\ orders' = Put(orders, wk[w].order, NewOrder(wk[w].order))
            /\ wk' = [wk EXCEPT ![w].pc = "rc_event", ![w].at = now]
            /\ UNCHANGED outs
       ELSE /\ Raised(w, "OptimisticLockError")
            /\ UNCHANGED orders
    /\ UNCHANGED <<idem, inventory, reservations, ncalls, fcount, fdone, orderItems,
                   initStock, now, cbVars, payments, saga, queue, events, bus>>

\* create: self._append_event(order_id, OrderStatus.PENDING, {}); return the item.
\* The store call before it took time: the clock read here is later than at that call.
RepoCreateEvent(w) ==
    /\ wk[w].pc = "rc_event"
    /\ now > wk[w].at
    /\ events' = AppendEvent(events, wk[w].order, "PENDING", now)
    /\ Returned(w, NewOrder(wk[w].order))
    /\ UNCHANGED <<idem, inventory, reservations, ncalls, fcount, fdone, orderItems,
                   initStock, now, cbVars, orders, payments, saga, queue, bus>>

\* repo.update_status(order_id, status)
CallUpdateStatus(w, o, status) ==
    /\ wk[w].pc = "idle"
    /\ o \in DOMAIN orders
    /\ ncalls' = ncalls + 1
    /\ wk' = [wk EXCEPT ![w] = [IdleWorker EXCEPT !.pc = "ru_meta", !.op = "repo_update",
                                                  !.key = o, !.cid = NewId, !.order = o,
                                                  !.status = status]]
    /\ UNCHANGED <<idem, inventory, reservations, outs, fcount, fdone, inputVars>>

\* update_status: update_item(SET #st = :s, updated_at = :u ADD version :one)
RepoUpdateMeta(w) ==
    /\ wk[w].pc = "ru_meta"
    /\ orders' = UpdateItem(orders, wk[w].order,
            [status |-> wk[w].status,
             version |-> Attr(GetItem(orders, wk[w].order), "version", 0) + 1])
    /\ wk' = [wk EXCEPT ![w].pc = "ru_event", ![w].at = now]
    /\ UNCHANGED <<idem, inventory, reservations, ncalls, outs, fcount, fdone, orderItems,
                   initStock, now, cbVars, payments, saga, queue, events, bus>>

\* update_status: self._append_event(order_id, status, metadata or {})
RepoUpdateEvent(w) ==
    /\ wk[w].pc = "ru_event"
    /\ now > wk[w].at
    /\ events' = AppendEvent(events, wk[w].order, wk[w].status, now)
    /\ Returned(w, <<>>)
    /\ UNCHANGED <<idem, inventory, reservations, ncalls, fcount, fdone, orderItems,
                   initStock, now, cbVars, orders, payments, saga, queue, bus>>

\* get_event_history(order_id): the EVENT# items of the order, by ascending sort key
RECURSIVE EventsFrom(_, _)
EventsFrom(o, t) ==
    IF t > MaxTime THEN << >>
    ELSE (IF <<o, t>> \in DOMAIN events THEN << events[<<o, t>>] >> ELSE << >>)
         \o EventsFrom(o, t + 1)

GetEventHistory(o) == EventsFrom(o, 0)

\* the order the processes work on
RepoOrders == {"o1"}

NextRepo ==
    \/ \E w \in InvWorkers :
          \/ \E o \in RepoOrders : ncalls < MaxCalls /\ CallRepoCreate(w, o)
          \/ \E o \in RepoOrders, status \in OrderStatus :
                ncalls < MaxCalls /\ CallUpdateStatus(w, o, status)
          \/ RepoCreatePut(w)
          \/ RepoCreateEvent(w)
          \/ RepoUpdateMeta(w)
          \/ RepoUpdateEvent(w)
    \/ Tick

SpecRepo == InitIdem /\ [][NextRepo]_vars

(* Writers that read the order before they write its status: repo.get, then *)
(* repo.update_status(order_id, status), which takes no version.            *)

\* order = repo.get(order_id); repo.update_status(order_id, status)
CallGetThenUpdateStatus(w, o, status) ==
    /\ wk[w].pc = "idle"
    /\ o \in DOMAIN orders
    /\ ncalls' = ncalls + 1
    /\ wk' = [wk EXCEPT ![w] = [IdleWorker EXCEPT !.pc = "ru_meta", !.op = "repo_update",
                                                  !.key = o, !.cid = NewId, !.order = o,
                                                  !.status = status, !.st = orders[o]]]
    /\ UNCHANGED <<idem, inventory, reservations, outs, fcount, fdone, inputVars>>

NextRepoWriters ==
    \/ \E w \in InvWorkers :
          \/ \E o \in RepoOrders : ncalls < MaxCalls /\ CallRepoCreate(w, o)
          \/ \E o \in RepoOrders, status \in {"INVENTORY_RESERVED", "FAILED"} :
                ncalls < MaxCalls /\ CallGetThenUpdateStatus(w, o, status)
          \/ RepoCreatePut(w)
          \/ RepoCreateEvent(w)
          \/ RepoUpdateMeta(w)
          \/ RepoUpdateEvent(w)
    \/ Tick

SpecRepoWriters == InitIdem /\ [][NextRepoWriters]_vars

----------------------------------------------------------------------------
(* Claims about the inventory *)

RECURSIVE SumOver(_, _)
SumOver(S, f) ==
    IF S = {} THEN 0
    ELSE LET x == CHOOSE y \in S : TRUE IN f[x] + SumOver(S \ {x}, f)

\* the units of product p held by one reservation item list
UnitsOf(items, p) ==
    SumOver({i \in 1..Len(items) : items[i].product_id = p},
            [i \in 1..Len(items) |-> items[i].quantity])

ActiveUnits(p) ==
    SumOver({r \in DOMAIN reservations : reservations[r].status = "ACTIVE"},
            [r \in DOMAIN reservations |-> UnitsOf(reservations[r].items, p)])

Quantity(p) == Attr(GetItem(inventory, p), "quantity", 0)

\* C3: under every interleaving of concurrent Reserve and Release invocations the
\* stored quantity of every product is never negative
C3_QuantityNonNegative ==
    \A p \in DOMAIN inventory : inventory[p].quantity >= 0

\* a competing Reserve was refused while another one holds the stock
C3_Witness ==
    /\ \E c \in DOMAIN outs : outs[c].kind = "ret" /\ outs[c].val.success = FALSE
    /\ \E p \in DOMAIN inventory : inventory[p].quantity = 0 /\ ActiveUnits(p) > 0
    /\ \E r \in DOMAIN reservations : reservations[r].status = "RELEASED"

LoadDone == \A o \in Orders : \E c \in DOMAIN outs : outs[c].key = ReserveKey(o)

LoadSuccesses == {c \in DOMAIN outs : outs[c].kind = "ret" /\ outs[c].val.success}

LoadRefusals ==
    {c \in DOMAIN outs : /\ outs[c].kind = "ret"
                         /\ ~outs[c].val.success
                         /\ outs[c].val.error = "INSUFFICIENT_STOCK"}

Min(a, b) == IF a <= b THEN a ELSE b

\* C4: N concurrent Reserve invocations with distinct order_ids, each asking q
\* units of a product seeded with k: once all have returned, exactly
\* min(N, k div q) succeeded, the others returned INSUFFICIENT_STOCK, and the
\* stored quantity is k - successes * q
C4_LoadOutcome ==
    LoadDone =>
        LET q == orderItems["o1"][1].quantity
            k == initStock["p1"]
            n == Cardinality(Orders)
        IN /\ Cardinality(LoadSuccesses) = Min(n, k \div q)
           /\ Cardinality(LoadRefusals) = n - Min(n, k \div q)
           /\ inventory["p1"].quantity = k - Cardinality(LoadSuccesses) * q

\* all invocations returned, some with success and some refused, stock left over
C4_Witness ==
    /\ LoadDone
    /\ LoadSuccesses # {}
    /\ LoadRefusals # {}
    /\ inventory["p1"].quantity > 0

\* C5: in every reachable state, the states between two store operations of a
\* running Reserve or Release included, for every product: stored quantity plus
\* the units held by ACTIVE reservations is at most the initial quantity
C5_NoOversell ==
    \A p \in DOMAIN initStock : Quantity(p) + ActiveUnits(p) <= initStock[p]

----------------------------------------------------------------------------
(* Claims about the idempotency registry *)

\* the wrapped function is being executed by w
InBody(w) == wk[w].pc \in {"run", "res_dec", "res_put", "rel_get", "rel_add", "rel_mark"}

\* C1: for every key, at most one invocation is executing the wrapped function
\* at any moment (the other callers return the cached result or fail with
\* IdempotencyAlreadyInProgressError without running it)
C1_SingleExecutor ==
    \A w1, w2 \in Workers :
        (InBody(w1) /\ InBody(w2) /\ wk[w1].key = wk[w2].key) => w1 = w2

\* C2: for every key the wrapped function completes successfully at most once,
\* and any two invocations with that key that return a value return equal values
C2_OneCompletionEqualResults ==
    /\ \A k \in DOMAIN fdone : fdone[k] <= 1
    /\ \A c1, c2 \in DOMAIN outs :
          (outs[c1].key = outs[c2].key /\ outs[c1].kind = "ret" /\ outs[c2].kind = "ret")
              => outs[c1].val = outs[c2].val

----------------------------------------------------------------------------
(* Claims about the circuit breaker *)

\* the stored record shows OPEN with resets_at after time t
RecordOpenAfter(t) ==
    /\ BreakerName \in DOMAIN cb
    /\ Attr(cb[BreakerName], "circuit_state", "-") = "OPEN"
    /\ Attr(cb[BreakerName], "resets_at", 0) > t

(* C6: starting from a CLOSED breaker with zero counters (no record yet, or *)
(* the record reset() writes), once failure_threshold calls in a row, made  *)
(* one after another, have failed, the record is OPEN and its resets_at is  *)
(* later than the time of the last failure.                                 *)
C6_OpenAfterThreshold ==
    (wk["w1"].pc = "idle" /\ consecFail >= FailureThreshold) => RecordOpenAfter(lastFail)

(* C7: with concurrent callers, no call has invoked the callable when the   *)
(* breaker state it read last was OPEN with resets_at later than the time   *)
(* of the invocation.                                                       *)
C7_NoInvokeWhileOpen ==
    \A w \in InvWorkers :
        wk[w].pc \in {"cb_ok", "cb_fail"} =>
            ~(/\ Attr(wk[w].st, "circuit_state", "-") = "OPEN"
              /\ Attr(wk[w].st, "resets_at", 0) > wk[w].at)

----------------------------------------------------------------------------
(* Claims about the saga *)

\* the execution of order o has ended
SagaEnded(o) == o \in DOMAIN saga /\ saga[o].status # "RUNNING"

\* the reservations / payments stored for order o
ReservationsOf(o) == {r \in DOMAIN reservations : reservations[r].order_id = o}

PaymentsOf(o) == {q \in DOMAIN payments : payments[q].order_id = o}

(* C8: an execution that has reached OrderConfirmed has left the order's    *)
(* stored status CONFIRMED, and one that has reached OrderFailed has left   *)
(* it FAILED.                                                               *)
C8_TerminalStatus ==
    \A o \in DOMAIN saga :
        /\ saga[o].state = "OrderConfirmed" => orders[o].status = "CONFIRMED"
        /\ saga[o].state = "OrderFailed" => orders[o].status = "FAILED"

\* Reserve succeeded for order o and Charge returned a business failure
ChargeRefused(o) ==
    /\ Attr(saga[o].reserve, "success", FALSE)
    /\ Attr(saga[o].charge, "error", "-") \in
            {"PAYMENT_DECLINED", "PAYMENT_PROVIDER_UNAVAILABLE"}

(* C9: when the saga of an order has ended after Reserve succeeded and      *)
(* Charge returned a business failure, the reservation Reserve returned is  *)
(* RELEASED, every product's quantity is back at its seeded value, and no   *)
(* Payment exists for the order.                                            *)
C9_CompensationRestores ==
    \A o \in DOMAIN saga :
        (SagaEnded(o) /\ ChargeRefused(o)) =>
            /\ saga[o].reserve.reservation_id \in DOMAIN reservations
            /\ reservations[saga[o].reserve.reservation_id].status = "RELEASED"
            /\ \A p \in Products : Quantity(p) = initStock[p]
            /\ PaymentsOf(o) = {}

(* C10: when the saga of an order has ended as failed after Charge          *)
(* succeeded, exactly one Payment of the order exists and it is REFUNDED,   *)
(* and exactly one Reservation of the order exists and it is RELEASED.      *)
C10_ChargedThenFailed ==
    \A o \in DOMAIN saga :
        (saga[o].status = "FAILED" /\ Attr(saga[o].charge, "success", FALSE)) =>
            /\ Cardinality(PaymentsOf(o)) = 1
            /\ \A q \in PaymentsOf(o) : payments[q].status = "REFUNDED"
            /\ Cardinality(ReservationsOf(o)) = 1
            /\ \A r \in ReservationsOf(o) : reservations[r].status = "RELEASED"

(* C11: no execution has ended, other than in OrderConfirmed, while a       *)
(* reservation of its order is still ACTIVE (so when Charge raised after    *)
(* Reserve succeeded, Release has run before the execution ended).          *)
C11_NoActiveReservationLeft ==
    \A o \in DOMAIN saga :
        (SagaEnded(o) /\ saga[o].state # "OrderConfirmed") =>
            \A r \in ReservationsOf(o) : reservations[r].status # "ACTIVE"

----------------------------------------------------------------------------
(* Further claims about the inventory handler *)

\* invocation c returned the structured failure INSUFFICIENT_STOCK
RefusedForStock(c) ==
    /\ outs[c].kind = "ret"
    /\ Attr(outs[c].val, "error", "-") = "INSUFFICIENT_STOCK"

NoneRunning == \A w \in Workers : wk[w].pc = "idle"

(* C12: when every Reserve call made so far has returned INSUFFICIENT_STOCK *)
(* every product's stored quantity equals its value before the calls and    *)
(* no Reservation exists, also for an order whose earlier item had been     *)
(* decremented when a later item failed the stock condition.                *)
C12_RefusedReserveChangesNothing ==
    (/\ NoneRunning
     /\ DOMAIN outs # {}
     /\ \A c \in DOMAIN outs : RefusedForStock(c)) =>
        /\ \A p \in Products : Quantity(p) = initStock[p]
        /\ DOMAIN reservations = {}

----------------------------------------------------------------------------
(* Claims about order creation *)

\* the order_id in the body of the response invocation c returned
OrderIdOf(c) == JsonLoads(outs[c].val.body).order_id

SubmittedKeys == {outs[c].key : c \in DOMAIN outs}

(* C13: submissions of POST /orders with the same idempotency key, each     *)
(* made after the previous one returned, all return 202 with the same       *)
(* order_id, and one order is persisted and one saga execution started per  *)
(* key.                                                                     *)
C13_DuplicateCreate ==
    /\ \A c1, c2 \in DOMAIN outs :
          outs[c1].key = outs[c2].key =>
              /\ outs[c1].val.statusCode = 202
              /\ outs[c2].val.statusCode = 202
              /\ OrderIdOf(c1) = OrderIdOf(c2)
    /\ wk["w1"].pc = "idle" =>
          /\ Cardinality(DOMAIN orders) = Cardinality(SubmittedKeys)
          /\ Cardinality(DOMAIN saga) = Cardinality(SubmittedKeys)
          /\ \A c \in DOMAIN outs : OrderIdOf(c) \in DOMAIN orders \cap DOMAIN saga

C13_Witness ==
    \E c1, c2 \in DOMAIN outs :
        /\ c1 # c2
        /\ outs[c1].key = outs[c2].key
        /\ outs[c1].val.statusCode = 202
        /\ outs[c2].val.statusCode = 202

----------------------------------------------------------------------------
(* Claims about repeated step calls *)

\* the Reserve calls of order o that have returned, and none of them failed
ReserveNeverFailed(o) ==
    \A c \in DOMAIN outs :
        outs[c].key = ReserveKey(o) =>
            outs[c].kind = "ret" /\ Attr(outs[c].val, "success", FALSE)

(* C14: for an order whose first Reserve call succeeded (no Reserve of the  *)
(* order has failed), every Reserve call made after that success returns    *)
(* success with the same reservation_id and never enters the reserving body *)
(* again, so the stock is decremented once and one Reservation exists.      *)
C14_RepeatedReserve ==
    \A o \in Orders :
        ReserveNeverFailed(o) =>
            /\ \A c \in DOMAIN outs :
                  (outs[c].key = ReserveKey(o) /\ outs[c].after # "-") =>
                      outs[c].val.reservation_id = outs[c].after
            /\ \A w \in Workers :
                  (wk[w].op = "reserve" /\ wk[w].order = o /\ wk[w].seen # "-") =>
                      wk[w].pc \in {"claim", "get"}
            /\ Cardinality(ReservationsOf(o)) <= 1
            /\ Attr(fdone, ReserveKey(o), 0) <= 1

C14_Witness ==
    \E o \in Orders, c \in DOMAIN outs :
        /\ ReserveNeverFailed(o)
        /\ outs[c].key = ReserveKey(o)
        /\ outs[c].after # "-"

\* call n was the Reserve that made the order's reservation, and call n + 1 the
\* Release of the reservation_id it returned
ReserveThenRelease(n) ==
    /\ ToString(n) \in DOMAIN outs
    /\ ToString(n + 1) \in DOMAIN outs
    /\ outs[ToString(n)].kind = "ret"
    /\ Attr(outs[ToString(n)].val, "success", FALSE)
    /\ outs[ToString(n)].after = "-"
    /\ "reservation_id" \in DOMAIN outs[ToString(n)].val
    /\ outs[ToString(n + 1)].key = ReleaseKey(outs[ToString(n)].val.reservation_id)

ReleasedAgain ==
    \E w \in Workers :
        /\ wk[w].pc = "rel_add"
        /\ reservations[wk[w].rid].status # "ACTIVE"

(* C16: however often a reservation_id is released, its quantities are added *)
(* back once: a Release that finds the reservation already RELEASED changes  *)
(* no quantity, also when the record release-<reservation_id> has gone from  *)
(* the idempotency table.                                                     *)
C16_ReleaseAddsBackOnce ==
    /\ ~ReleasedAgain
    /\ \A p \in Products : Quantities[p] <= initStock[p]

\* the number of the last call before call m that used key k (0 when there is none)
LastBefore(m, k) ==
    LET S == {n \in 1..(m - 1) : /\ ToString(n) \in DOMAIN outs
                                  /\ outs[ToString(n)].key = k}
    IN IF S = {} THEN 0 ELSE CHOOSE n \in S : \A x \in S : x <= n

\* the wrapped function raised in the last call before call m that used key k
PreviousRaised(m, k) ==
    /\ LastBefore(m, k) # 0
    /\ outs[ToString(LastBefore(m, k))].kind = "exc"
    /\ outs[ToString(LastBefore(m, k))].val = "RuntimeError"

(* C17: when the wrapped function raises, the wrapper deletes the key's     *)
(* record and the caller sees the exception; the next call with the key     *)
(* finds no record, claims the key and runs f, and when f returns its       *)
(* result is the one cached and returned.                                   *)
C17_CleanupAllowsRetry ==
    /\ \A k \in RetryKeys :
          (wk["w1"].pc = "idle" /\ PreviousRaised(ncalls + 1, k)) => k \notin DOMAIN idem
    /\ (wk["w1"].pc # "idle" /\ PreviousRaised(ncalls, wk["w1"].key)) =>
          /\ wk["w1"].pc \in {"claim", "run", "cleanup", "cache"}
          /\ wk["w1"].pc # "claim" => /\ wk["w1"].key \in DOMAIN idem
                                      /\ idem[wk["w1"].key].status = "IN_FLIGHT"
    /\ \A m \in 2..MaxCalls :
          (/\ ncalls = m
           /\ ToString(m) \in DOMAIN outs
           /\ outs[ToString(m)].kind = "ret"
           /\ PreviousRaised(m, outs[ToString(m)].key)) =>
              LET k == outs[ToString(m)].key IN
              /\ k \in DOMAIN idem
              /\ idem[k].status = "COMPLETE"
              /\ JsonLoads(idem[k].result) = outs[ToString(m)].val
              /\ outs[ToString(m)].val.count = fcount

C17_Witness ==
    \E m \in 2..MaxCalls :
        /\ ncalls = m
        /\ ToString(m) \in DOMAIN outs
        /\ outs[ToString(m)].kind = "ret"
        /\ PreviousRaised(m, outs[ToString(m)].key)

\* caller w records the failure of a call it was admitted to under a HALF_OPEN record
ProbeFailureRecorded(w) ==
    /\ wk[w].pc = "cb_fail"
    /\ wk'[w].pc # "cb_fail"
    /\ Attr(wk[w].st, "circuit_state", "CLOSED") = "HALF_OPEN"

\* caller w starts a call while the record is OPEN and its resets_at is still ahead
StartsWhileOpen(w) ==
    /\ wk[w].pc = "cb_start"
    /\ wk'[w].pc # "cb_start"
    /\ Attr(GetState, "circuit_state", "CLOSED") = "OPEN"
    /\ now < Attr(GetState, "resets_at", 0)

(* C18: when a call admitted under a HALF_OPEN record fails, the record     *)
(* becomes OPEN with resets_at = now + timeout, and a call that starts      *)
(* before the record's resets_at is rejected without invoking the callable. *)
C18_ProbeFailureReopens ==
    [][\A w \in Workers :
          /\ ProbeFailureRecorded(w) =>
                /\ Attr(cb'[BreakerName], "circuit_state", "-") = "OPEN"
                /\ Attr(cb'[BreakerName], "resets_at", 0)
                      = now + TimeoutSeconds * TicksPerSecond
          /\ StartsWhileOpen(w) =>
                /\ wk'[w].pc = "idle"
                /\ ninvoked' = ninvoked
                /\ outs'[wk[w].cid].val = "CircuitBreakerOpenError"]_vars

\* the caller records the success of a probe while the record is HALF_OPEN
ProbeSuccessRecorded ==
    /\ wk["w1"].pc = "cb_ok"
    /\ wk'["w1"].pc # "cb_ok"
    /\ Attr(GetState, "circuit_state", "-") = "HALF_OPEN"

(* C19: in HALF_OPEN a successful probe with success_count + 1 below the    *)
(* success threshold leaves the record HALF_OPEN with success_count one     *)
(* higher; the successful probe with which success_count + 1 reaches the    *)
(* threshold sets the record CLOSED with failure_count 0 and success_count 0. *)
C19_ProbeSuccessCounting ==
    [][ProbeSuccessRecorded =>
          IF cb[BreakerName].success_count + 1 < SuccessThreshold
          THEN /\ cb'[BreakerName].circuit_state = "HALF_OPEN"
               /\ cb'[BreakerName].success_count = cb[BreakerName].success_count + 1
               /\ cb'[BreakerName].failure_count = cb[BreakerName].failure_count
          ELSE /\ cb'[BreakerName].circuit_state = "CLOSED"
               /\ cb'[BreakerName].failure_count = 0
               /\ cb'[BreakerName].success_count = 0]_vars

\* the record was OPEN once and a run of successful probes has closed it
C19_Witness ==
    /\ wk["w1"].pc = "idle"
    /\ BreakerName \in DOMAIN cb
    /\ "resets_at" \in DOMAIN cb[BreakerName]
    /\ Attr(cb[BreakerName], "circuit_state", "-") = "CLOSED"
    /\ Attr(cb[BreakerName], "failure_count", -1) = 0

\* caller w takes a step of its call
Steps(w, pc) == wk[w].pc = pc /\ wk'[w].pc # pc

\* caller w reads an OPEN record whose resets_at has been reached
StartsAfterCooldown(w) ==
    /\ Steps(w, "cb_start")
    /\ Attr(GetState, "circuit_state", "CLOSED") = "OPEN"
    /\ now >= Attr(GetState, "resets_at", 0)

(* C20: a call that finds the record OPEN with now >= resets_at writes the  *)
(* transition to HALF_OPEN with success_count 0 and is then admitted: it    *)
(* invokes the callable once and returns what the callable returned.        *)
C20_ProbeAfterCooldown ==
    [][\A w \in InvWorkers :
          /\ StartsAfterCooldown(w) => wk'[w].pc = "cb_half"
          /\ Steps(w, "cb_half") =>
                /\ cb'[BreakerName].circuit_state = "HALF_OPEN"
                /\ cb'[BreakerName].success_count = 0
                /\ wk'[w].pc = "cb_reread"
          /\ Steps(w, "cb_reread") => wk'[w].pc = "cb_invoke" /\ ninvoked' = ninvoked
          /\ Steps(w, "cb_invoke") =>
                /\ ninvoked' = ninvoked + 1
                /\ wk'[w].pc \in {"cb_ok", "cb_fail"}
          /\ Steps(w, "cb_ok") =>
                /\ ninvoked' = ninvoked
                /\ wk'[w].pc = "idle"
                /\ outs'[wk[w].cid].kind = "ret"
                /\ outs'[wk[w].cid].val = wk[w].fnres
          /\ Steps(w, "cb_fail") =>
                /\ ninvoked' = ninvoked
                /\ wk'[w].pc = "idle"
                /\ outs'[wk[w].cid].kind = "exc"
                /\ outs'[wk[w].cid].val = wk[w].exc]_vars

\* the call that made the transition has returned the callable's result
C20_Witness ==
    /\ \A w \in InvWorkers : wk[w].pc = "idle"
    /\ BreakerName \in DOMAIN cb
    /\ Attr(cb[BreakerName], "circuit_state", "-") = "HALF_OPEN"
    /\ Attr(cb[BreakerName], "success_count", 0) = 1
    /\ ToString(ncalls) \in DOMAIN outs
    /\ outs[ToString(ncalls)].kind = "ret"

\* the state a caller would read is CLOSED / OPEN
ReadsClosed(state) == Attr(state, "circuit_state", "-") = "CLOSED"

ReadsOpen(state) == Attr(state, "circuit_state", "-") = "OPEN"

(* C21: with calls made one after another, a successful call under a CLOSED *)
(* breaker leaves it CLOSED with failure_count 0, and the breaker goes from *)
(* CLOSED to OPEN only when failure_threshold calls in a row have failed.   *)
C21_ClosedCounting ==
    [][/\ (Steps("w1", "cb_ok") /\ ReadsClosed(GetState)) =>
             /\ ReadsClosed(GetState')
             /\ Attr(GetState', "failure_count", -1) = 0
       /\ (ReadsClosed(GetState) /\ ReadsOpen(GetState')) =>
             consecFail >= FailureThreshold]_vars

\* the stored record is CLOSED with both counters at zero
ClosedAndZeroed(state) ==
    /\ ReadsClosed(state)
    /\ Attr(state, "failure_count", -1) = 0
    /\ Attr(state, "success_count", -1) = 0

(* C22: reset() leaves the record CLOSED with failure_count 0 and           *)
(* success_count 0 whatever the record was before, and a call that starts   *)
(* on that record is admitted to the callable.                              *)
C22_ResetCloses ==
    [][/\ CbReset => (BreakerName \in DOMAIN cb' /\ ClosedAndZeroed(cb'[BreakerName]))
       /\ (/\ Steps("w1", "cb_start")
           /\ BreakerName \in DOMAIN cb
           /\ ClosedAndZeroed(cb[BreakerName])) => wk'["w1"].pc = "cb_invoke"]_vars

\* a call was rejected by the OPEN breaker, reset() has replaced the record since
\* (no resets_at left), and the call made after it has reached the callable
C22_Witness ==
    /\ wk["w1"].pc = "cb_ok"
    /\ BreakerName \in DOMAIN cb
    /\ ClosedAndZeroed(cb[BreakerName])
    /\ "resets_at" \notin DOMAIN cb[BreakerName]
    /\ \E c \in DOMAIN outs :
          outs[c].kind = "exc" /\ outs[c].val = "CircuitBreakerOpenError"

\* the status moves the order's status machine allows
StatusMove(from, to) ==
    \/ from = "PENDING" /\ to = "INVENTORY_RESERVED"
    \/ from = "INVENTORY_RESERVED" /\ to = "PAYMENT_CHARGED"
    \/ from = "PAYMENT_CHARGED" /\ to = "CONFIRMED"
    \/ from \notin {"CONFIRMED", "FAILED", "COMPENSATING"} /\ to = "COMPENSATING"
    \/ from = "COMPENSATING" /\ to = "FAILED"

(* C23: a write that changes an order's stored status moves it one step     *)
(* along PENDING -> INVENTORY_RESERVED -> PAYMENT_CHARGED -> CONFIRMED, or   *)
(* from a non-terminal status to COMPENSATING, or from COMPENSATING to      *)
(* FAILED; a CONFIRMED or FAILED status is never changed.                   *)
C23_StatusOneWay ==
    [][\A o \in RepoOrders :
          (/\ o \in DOMAIN orders
           /\ o \in DOMAIN orders'
           /\ orders'[o].status # orders[o].status) =>
              StatusMove(orders[o].status, orders'[o].status)]_vars

\* no create or update_status of order o is in progress
RepoQuiet(o) == \A w \in InvWorkers : wk[w].pc = "idle" \/ wk[w].order # o

(* C24: once the writes made for an order have returned, its event history  *)
(* has one event per status write (create and every update_status), none    *)
(* overwritten, in the order of the writes: as many events as writes, the   *)
(* last event carrying the status stored last.                              *)
C24_EventLogMatchesWrites ==
    \A o \in RepoOrders :
        (o \in DOMAIN orders /\ RepoQuiet(o)) =>
            LET history == GetEventHistory(o) IN
            /\ Len(history) = orders[o].version
            /\ history[Len(history)].status = orders[o].status

\* the exceptions of a failed store or provider call
InfrastructureErrors == {"ConnectionError", "ClientError"}

\* the invocations that end in this step
Ending == DOMAIN outs' \ DOMAIN outs

(* C25: the inventory and payment handlers return a business failure as a   *)
(* result, INSUFFICIENT_STOCK for a refused reservation and PAYMENT_DECLINED *)
(* for a provider decline; the only exceptions that leave a handler are     *)
(* those of a failed store or provider call.                                *)
C25_BusinessFailuresReturned ==
    [][/\ \A w \in Workers :
             (Steps(w, "cleanup") /\ wk[w].exc = "InsufficientStockError") =>
                 /\ outs'[wk[w].cid].kind = "ret"
                 /\ outs'[wk[w].cid].val.success = FALSE
                 /\ outs'[wk[w].cid].val.error = "INSUFFICIENT_STOCK"
       /\ \A w \in Workers :
             (Steps(w, "cleanup") /\ wk[w].exc = "PaymentDeclinedError") =>
                 /\ outs'[wk[w].cid].kind = "ret"
                 /\ outs'[wk[w].cid].val.success = FALSE
                 /\ outs'[wk[w].cid].val.error = "PAYMENT_DECLINED"
       /\ \A c \in Ending :
             outs'[c].kind = "exc" => outs'[c].val \in InfrastructureErrors]_vars

(* C26: a POST /orders without an idempotency key is answered with a 4xx    *)
(* client error, and no order is stored, no event appended or emitted and   *)
(* no saga started for it.                                                  *)
C26_MissingKeyRejected ==
    [][\A w \in Workers :
          Steps(w, "crt_key") =>
              /\ outs'[wk[w].cid].kind = "ret"
              /\ outs'[wk[w].cid].val.statusCode \in 400..499
              /\ UNCHANGED <<orders, events, bus, saga, idem>>]_vars

\* the Charge invocation with id c was refused because the breaker is open
Unavailable(c) ==
    /\ outs[c].kind = "ret"
    /\ Attr(outs[c].val, "error", "-") = "PAYMENT_PROVIDER_UNAVAILABLE"

(* C27: a Charge that finds the breaker OPEN with resets_at ahead does not  *)
(* invoke the provider and stores no Payment; it returns success false with *)
(* PAYMENT_PROVIDER_UNAVAILABLE and retry_after_seconds, and the record     *)
(* charge-<order_id> is gone when it returns, so a later Charge can run.    *)
C27_OpenBreakerCharge ==
    [][\A w \in Workers :
          /\ (StartsWhileOpen(w) /\ wk[w].op = "charge") =>
                /\ wk'[w].pc = "cleanup"
                /\ wk'[w].exc = "CircuitBreakerOpenError"
                /\ UNCHANGED <<ninvoked, ledger, payments>>
          /\ (Steps(w, "cleanup") /\ wk[w].exc = "CircuitBreakerOpenError") =>
                /\ outs'[wk[w].cid].kind = "ret"
                /\ outs'[wk[w].cid].val.success = FALSE
                /\ outs'[wk[w].cid].val.error = "PAYMENT_PROVIDER_UNAVAILABLE"
                /\ "retry_after_seconds" \in DOMAIN outs'[wk[w].cid].val
                /\ wk[w].key \notin DOMAIN idem'
                /\ UNCHANGED <<ninvoked, ledger, payments>>]_vars

\* a Charge was refused by the open breaker and the last Charge, for the same
\* order, has since run and succeeded
C27_Witness ==
    /\ wk["w1"].pc = "idle"
    /\ ToString(ncalls) \in DOMAIN outs
    /\ outs[ToString(ncalls)].kind = "ret"
    /\ Attr(outs[ToString(ncalls)].val, "success", FALSE)
    /\ \E c \in DOMAIN outs :
          Unavailable(c) /\ outs[c].key = outs[ToString(ncalls)].key

(* C28: with Reserve and Release attempts for one order that may fail at    *)
(* any store call and are retried with the same key, once no attempt is in  *)
(* progress every product's stored quantity plus the quantities held by     *)
(* ACTIVE reservations equals its initial quantity.                         *)
C28_RetriesApplyOnce ==
    wk["w1"].pc = "idle" =>
        \A p \in Products : Quantities[p] + ActiveUnits(p) = initStock[p]

(* C29: across Charge attempts for an order, retries after an               *)
(* infrastructure failure at any step included, the provider accepts at     *)
(* most one charge for the order and at most one Payment record exists.     *)
C29_ChargedAtMostOnce ==
    \A o \in Orders :
        /\ Attr(ledger, o, 0) <= 1
        /\ Cardinality(PaymentsOf(o)) <= 1

\* the record of key k is IN_FLIGHT and no running invocation holds it
Orphaned(k) ==
    /\ k \in DOMAIN idem
    /\ idem[k].status = "IN_FLIGHT"
    /\ \A w \in Workers : ~(Holds(w) /\ wk[w].key = k)

(* C30: after a crash has left the record of key K IN_FLIGHT, a call with K *)
(* fails with IdempotencyAlreadyInProgressError without running f and       *)
(* without changing the record, for as long as the record is in the store;  *)
(* once TTL eviction has removed the record, the next call with K claims    *)
(* the key and runs f.                                                      *)
C30_OrphanedKeyBlocksUntilEvicted ==
    [][\A w \in InvWorkers :
          /\ (Steps(w, "claim") /\ Orphaned(wk[w].key)) =>
                /\ wk'[w].pc = "get"
                /\ UNCHANGED <<idem, fcount>>
          /\ (Steps(w, "get") /\ Orphaned(wk[w].key)) =>
                /\ wk[w].cid \in DOMAIN outs'
                /\ outs'[wk[w].cid].kind = "exc"
                /\ outs'[wk[w].cid].val = "IdempotencyAlreadyInProgressError"
                /\ UNCHANGED <<idem, fcount>>
          /\ (Steps(w, "claim") /\ wk[w].key \notin DOMAIN idem) =>
                /\ wk'[w].pc = "run"
                /\ idem' = Put(idem, wk[w].key, ClaimItem)
          /\ (Steps(w, "run") /\ wk'[w].pc # "idle") =>
                fcount' = fcount + 1]_vars

\* call a died holding the key, the later call b was turned away, and after the
\* eviction call c ran f and returned its result
C30_Witness ==
    \E a, b, c \in 1..MaxCalls :
        /\ a < b /\ b < c /\ c <= ncalls
        /\ ToString(a) \notin DOMAIN outs
        /\ \A w \in Workers : wk[w].cid # ToString(a)
        /\ ToString(b) \in DOMAIN outs
        /\ outs[ToString(b)].kind = "exc"
        /\ outs[ToString(b)].val = "IdempotencyAlreadyInProgressError"
        /\ ToString(c) \in DOMAIN outs
        /\ outs[ToString(c)].kind = "ret"
        /\ outs[ToString(c)].val.count = fcount

(* C31: a record whose ttl is earlier than the current time is treated as   *)
(* absent: a call with that key claims the key and runs f, whether or not   *)
(* the store has already evicted the record.                                *)
C31_ExpiredRecordIsAbsent ==
    [][\A w \in InvWorkers :
          (Steps(w, "claim") /\ Expired(wk[w].key)) =>
              /\ wk'[w].pc = BodyStart(wk[w].op)
              /\ idem'[wk[w].key] = ClaimItem]_vars

\* the stored record is OPEN and its cooldown has not ended
OpenBeforeResetsAt ==
    /\ BreakerName \in DOMAIN cb
    /\ Attr(cb[BreakerName], "circuit_state", "-") = "OPEN"
    /\ now < Attr(cb[BreakerName], "resets_at", 0)

(* C32: once the record is OPEN with resets_at = r, its circuit_state stays *)
(* OPEN until the clock reaches r unless reset() is called: no write of a   *)
(* call in flight (a recorded success or failure, the half-open transition) *)
(* changes the state before r.  A step of a call changes wk; reset() does   *)
(* not.                                                                     *)
C32_OpenUntilResetsAt ==
    [][(OpenBeforeResetsAt /\ wk' # wk) =>
          /\ BreakerName \in DOMAIN cb'
          /\ Attr(cb'[BreakerName], "circuit_state", "-") = "OPEN"]_vars

\* the record in table t counts as CLOSED (a missing record does)
ClosedIn(t) ==
    \/ BreakerName \notin DOMAIN t
    \/ Attr(t[BreakerName], "circuit_state", "-") = "CLOSED"

FailureCountIn(t) == Attr(GetItem(t, BreakerName), "failure_count", 0)

(* C33: while the breaker is CLOSED, no call succeeds and no reset happens, *)
(* the stored failure_count never decreases, also when several callers      *)
(* record failures concurrently.  Every invocation fails here; a step of a  *)
(* call changes wk, reset() does not.                                       *)
C33_FailureCountMonotone ==
    [][(wk' # wk /\ ClosedIn(cb) /\ ClosedIn(cb')) =>
          FailureCountIn(cb') >= FailureCountIn(cb)]_vars

\* the stored record is OPEN
RecordOpen ==
    /\ BreakerName \in DOMAIN cb
    /\ Attr(cb[BreakerName], "circuit_state", "-") = "OPEN"

(* C34: when every invocation fails, no reset happens and the callers keep  *)
(* calling (each call completes), the record eventually becomes OPEN,       *)
(* despite lost counter updates between concurrent callers.                 *)
C34_EventuallyOpen == <>RecordOpen

\* the Reserve task of order o's execution returned a business failure
ReserveRefused(o) ==
    /\ o \in DOMAIN saga
    /\ saga[o].reserve # <<>>
    /\ saga[o].reserve.success = FALSE

(* C35: when Reserve returns a business failure (INSUFFICIENT_STOCK) the    *)
(* saga invokes neither Charge nor Release: it goes to the failure          *)
(* notification and ends in the failed terminal state.                      *)
C35_RefusedReserveFailsOrder ==
    \A o \in SagaOrders :
        ReserveRefused(o) =>
            /\ saga[o].state \notin {"ChargePayment", "PaymentSucceeded?",
                                     "SetPaymentFailedError", "ReleaseInventory"}
            /\ saga[o].charge = <<>>
            /\ saga[o].status # "RUNNING" =>
                   /\ saga[o].state = "OrderFailed"
                   /\ [notification_type |-> "ORDER_FAILED", order_id |-> o] \in queue

\* writer w is about to write a status on top of a version it has not read
StaleWriter(w) ==
    /\ wk[w].pc = "ru_meta"
    /\ wk[w].st # <<>>
    /\ wk[w].st.version # orders[wk[w].order].version

(* C36: when two writers have read the same order at version v and both     *)
(* write a status update, one write succeeds and the other is rejected with *)
(* OptimisticLockError: no status write based on a stale version is         *)
(* applied.                                                                 *)
C36_StaleStatusWriteRejected ==
    [][\A w \in InvWorkers :
          (StaleWriter(w) /\ Steps(w, "ru_meta")) =>
              /\ orders' = orders
              /\ wk[w].cid \in DOMAIN outs'
              /\ outs'[wk[w].cid].kind = "exc"
              /\ outs'[wk[w].cid].val = "OptimisticLockError"]_vars

\* the keys of the step executors' inputs: Reserve and Charge of an order
StepKeys == {ReserveKey(o) : o \in Orders} \cup {ChargeKey(o) : o \in Orders}

(* C37: two invocations of a step executor with the same input (Reserve or  *)
(* Charge with the same order_id) return equal results, whether the first   *)
(* result was a success or a business failure and whatever happened to the  *)
(* inventory or the breaker in between.                                     *)
C37_SameInputSameResult ==
    \A c, d \in DOMAIN outs :
        (/\ outs[c].key \in StepKeys
         /\ outs[c].key = outs[d].key
         /\ outs[c].kind = "ret"
         /\ outs[d].kind = "ret") => outs[c].val = outs[d].val

\* caller w records the outcome of a provider call that returned a decline
DeclineRecorded(w) ==
    /\ Steps(w, "cb_ok")
    /\ wk[w].op = "charge"
    /\ Attr(wk[w].fnres, "success", TRUE) = FALSE

(* C38: a provider response that is a business decline (returned, not       *)
(* thrown) is never counted by the breaker as a failure: it does not        *)
(* increment failure_count and cannot move the breaker to OPEN; only an     *)
(* exception raised by the provider call is recorded as a failure.          *)
C38_DeclineIsNoFailure ==
    [][/\ \A w \in Workers :
             DeclineRecorded(w) =>
                 /\ FailureCountIn(cb') <= FailureCountIn(cb)
                 /\ RecordOpen' => RecordOpen
       /\ (\/ FailureCountIn(cb') > FailureCountIn(cb)
           \/ RecordOpen' /\ ~RecordOpen) =>
              \E w \in Workers : Steps(w, "cb_fail") /\ wk[w].exc = "ConnectionError"]_vars

\* a provider timeout was counted, and the decline that followed was returned to the
\* caller with the count back at zero and the record CLOSED
C38_Witness ==
    \E c, d \in DOMAIN outs :
        /\ outs[c].key = outs[d].key
        /\ outs[c].kind = "exc"
        /\ outs[c].val = "ConnectionError"
        /\ outs[d].kind = "ret"
        /\ Attr(outs[d].val, "error", "-") = "PAYMENT_DECLINED"
        /\ ninvoked = 2
        /\ BreakerName \in DOMAIN cb
        /\ Attr(cb[BreakerName], "circuit_state", "-") = "CLOSED"
        /\ FailureCountIn(cb) = 0

\* the Refund call of w ends in this step
RefundEnds(w) ==
    /\ wk[w].op = "refund"
    /\ wk[w].pc # "idle"
    /\ wk'[w].pc = "idle"

(* C39: a Refund without payment_id, or of a payment_id with no Payment     *)
(* record, returns success without a provider call; a Refund of a recorded  *)
(* Payment goes to the provider through the breaker and marks the Payment   *)
(* REFUNDED, so that it ends with the Payment REFUNDED after exactly one    *)
(* accepted provider refund (or is refused by the open breaker, or fails    *)
(* with the provider's timeout); a repeated Refund of the same payment_id   *)
(* makes no further provider call.                                          *)
C39_RefundMarksRefunded ==
    [][/\ \A c \in DOMAIN outs' \ DOMAIN outs :
             outs'[c].key = "-" =>
                 /\ outs'[c].val.success
                 /\ UNCHANGED <<ninvoked, payments>>
       /\ \A w \in Workers :
             /\ (Steps(w, "rf_get") /\ wk[w].pid \notin DOMAIN payments) =>
                   /\ wk'[w].pc = "cache"
                   /\ wk'[w].res.success
                   /\ UNCHANGED <<ninvoked, payments>>
             /\ (Steps(w, "rf_get") /\ wk[w].pid \in DOMAIN payments) =>
                   wk'[w].pc = "cb_start"
             /\ Steps(w, "rf_mark") => payments'[wk[w].pid].status = "REFUNDED"
             /\ (RefundEnds(w) /\ wk[w].pid \in DOMAIN payments) =>
                   LET r == outs'[wk[w].cid] IN
                   \/ /\ r.kind = "ret"
                      /\ Attr(r.val, "success", FALSE)
                      /\ payments'[wk[w].pid].status = "REFUNDED"
                      /\ Attr(ledger', wk[w].key, 0) = 1
                   \/ /\ r.kind = "ret"
                      /\ Attr(r.val, "error", "-") = "PAYMENT_PROVIDER_UNAVAILABLE"
                   \/ /\ r.kind = "exc"
                      /\ r.val = "ConnectionError"]_vars

(* C40: whatever the interleaving of concurrent calls and resets, a record  *)
(* whose circuit_state is CLOSED has failure_count below failure_threshold  *)
(* (a missing record counts as CLOSED with zero counters).                  *)
C40_ClosedBelowThreshold ==
    ClosedIn(cb) => FailureCountIn(cb) < FailureThreshold

====
